---- MODULE Spec2Model ----
(***************************************************************************)
(* CareFi analysis pipeline: the rate limiter and POST handler of          *)
(* /api/analysis/start, the orchestrator startOpenAIVisionAnalysis, the    *)
(* image utilities and the OpenAI Vision client callVision.               *)
(*                                                                         *)
(* Modelling conventions                                                   *)
(*  - One action is the code that runs between two awaits of a handler.    *)
(*  - Every database, storage or provider call can fail.  Where the code   *)
(*    inspects the result (createError, updateError, error || !data, a     *)
(*    thrown exception) the failure stops the run; where it discards the   *)
(*    result (the status updates, the error update) the run goes on.  A    *)
(*    call that fails has changed nothing.                                 *)
(*  - Each query of getUserImagesForAngles and each createSignedUrl call   *)
(*    of getSignedImageUrls is a step of its own.                          *)
(*  - Time is Date.now() in milliseconds, counted from the first state.    *)
(*  - Texts are kept literally, degree signs left out; a message built     *)
(*    from a template is the sequence of its fragments.                    *)
(***************************************************************************)
EXTENDS Integers, Sequences, FiniteSets, TLC

(***************************************************************************)
(* Bounds of the model                                                     *)
(***************************************************************************)
MaxTicks == 1
LimiterTicks == 3
MaxChecks == 5
MaxRequests == 2
MaxUrls == 4
MaxRows == 2
MaxTraits == 2
MaxCleanups == 2

(***************************************************************************)
(* Program constants                                                       *)
(***************************************************************************)
maxTokens == 3
refillIntervalMs == 0
tokensPerRefill == 3
WindowMs == 3600000
CleanupIntervalMs == 600000
TickMs == 1200000

Owners == {"u1", "u2"}
NoBucket == [tokens |-> -1, lastRefill |-> -1]

VARIABLES
    now,        \* Date.now(), milliseconds
    buckets,    \* RateLimiter.buckets: owner -> bucket, NoBucket when absent
    log,        \* answers of the rate-limit gate, in request order
    records,    \* table skin_analyses; a row's id is its index
    images,     \* table uploaded_images
    req         \* the requests being handled: slot -> local state of POST

vars == <<now, buckets, log, records, images, req>>

(***************************************************************************)
(* JavaScript numbers that checkLimit can produce: a finite integer,       *)
(* Infinity (x / 0 for x > 0) or NaN (0 / 0).                              *)
(***************************************************************************)
Fin(n) == [kind |-> "fin", v |-> n]
Infinity == [kind |-> "inf", v |-> 0]
NaN == [kind |-> "nan", v |-> 0]

Min(a, b) == IF a < b THEN a ELSE b
Max(a, b) == IF a > b THEN a ELSE b

\* Math.ceil(a / b) for integers a >= 0, b > 0
CeilDiv(a, b) == (a + b - 1) \div b

\* Math.floor(timeSinceRefill / intervalMs), timeSinceRefill >= 0
FloorDivJS(timeSinceRefill, intervalMs) ==
    IF intervalMs = 0
    THEN IF timeSinceRefill > 0 THEN Infinity ELSE NaN
    ELSE Fin(timeSinceRefill \div intervalMs)

refillsEarned(bucket, t, intervalMs) == FloorDivJS(t - bucket.lastRefill, intervalMs)

\* refillsEarned > 0 (NaN > 0 is false)
IsPositiveJS(x) == x.kind = "inf" \/ (x.kind = "fin" /\ x.v > 0)

\* Math.min(maxTokens, tokens + refillsEarned * tokensPerRefill), refillsEarned > 0
RefilledTokens(tokens, earned) ==
    IF earned.kind = "inf"
    THEN maxTokens
    ELSE Min(maxTokens, tokens + earned.v * tokensPerRefill)

\* Refill that leaves lastRefill as it was
RefillKeepsTime(bucket, t, intervalMs) ==
    LET earned == refillsEarned(bucket, t, intervalMs)
    IN  IF IsPositiveJS(earned)
        THEN [bucket EXCEPT !.tokens = RefilledTokens(bucket.tokens, earned)]
        ELSE bucket

\* The bucket after the refill block of checkLimit
Refill(bucket, t, intervalMs) ==
    LET earned == refillsEarned(bucket, t, intervalMs)
    IN  IF IsPositiveJS(earned)
        THEN [tokens |-> RefilledTokens(bucket.tokens, earned), lastRefill |-> t]
        ELSE bucket

\* checkLimitAt whose first request of a key leaves the bucket full
checkLimitAtFreeFirst(bs, key, t, intervalMs) ==
    IF bs[key] = NoBucket
    THEN [allowed |-> TRUE,
          buckets |-> [bs EXCEPT ![key] = [tokens |-> maxTokens, lastRefill |-> t]]]
    ELSE LET b == Refill(bs[key], t, intervalMs)
         IN  IF b.tokens > 0
             THEN [allowed |-> TRUE,
                   buckets |-> [bs EXCEPT ![key] = [b EXCEPT !.tokens = b.tokens - 1]]]
             ELSE [allowed |-> FALSE, buckets |-> [bs EXCEPT ![key] = b]]

\* checkLimitAt of a limiter that keeps one bucket for all keys
checkLimitAtShared(bs, key, t, intervalMs) ==
    LET all(b) == [o \in Owners |-> b]
    IN  IF bs[key] = NoBucket
        THEN [allowed |-> TRUE, buckets |-> all([tokens |-> maxTokens - 1, lastRefill |-> t])]
        ELSE LET b == Refill(bs[key], t, intervalMs)
             IN  IF b.tokens > 0
                 THEN [allowed |-> TRUE, buckets |-> all([b EXCEPT !.tokens = b.tokens - 1])]
                 ELSE [allowed |-> FALSE, buckets |-> all(b)]

\* checkLimitAt that stamps lastRefill on a denial
checkLimitAtStamping(bs, key, t, intervalMs) ==
    IF bs[key] = NoBucket
    THEN [allowed |-> TRUE,
          buckets |-> [bs EXCEPT ![key] = [tokens |-> maxTokens - 1, lastRefill |-> t]]]
    ELSE LET b == Refill(bs[key], t, intervalMs)
         IN  IF b.tokens > 0
             THEN [allowed |-> TRUE,
                   buckets |-> [bs EXCEPT ![key] = [b EXCEPT !.tokens = b.tokens - 1]]]
             ELSE [allowed |-> FALSE, buckets |-> [bs EXCEPT ![key] = [b EXCEPT !.lastRefill = t]]]

\* checkLimitAt that takes a token without looking at bucket.tokens > 0
checkLimitAtUnguarded(bs, key, t, intervalMs) ==
    IF bs[key] = NoBucket
    THEN [allowed |-> TRUE,
          buckets |-> [bs EXCEPT ![key] = [tokens |-> maxTokens - 1, lastRefill |-> t]]]
    ELSE LET b == Refill(bs[key], t, intervalMs)
         IN  [allowed |-> b.tokens > 0,
              buckets |-> [bs EXCEPT ![key] = [b EXCEPT !.tokens = b.tokens - 1]]]

\* checkLimitAt decrementing a copy of the bucket: the map keeps the tokens
checkLimitAtOnCopy(bs, key, t, intervalMs) ==
    IF bs[key] = NoBucket
    THEN [allowed |-> TRUE,
          buckets |-> [bs EXCEPT ![key] = [tokens |-> maxTokens - 1, lastRefill |-> t]]]
    ELSE LET b == Refill(bs[key], t, intervalMs)
         IN  IF b.tokens > 0
             THEN [allowed |-> TRUE, buckets |-> [bs EXCEPT ![key] = b]]
             ELSE [allowed |-> FALSE, buckets |-> [bs EXCEPT ![key] = b]]

\* RateLimiter.checkLimit(key) at time t: the result and the bucket map after it
checkLimitAt(bs, key, t, intervalMs) ==
    IF bs[key] = NoBucket
    THEN [allowed |-> TRUE,
          buckets |-> [bs EXCEPT ![key] = [tokens |-> maxTokens - 1, lastRefill |-> t]]]
    ELSE LET b == Refill(bs[key], t, intervalMs)
         IN  IF b.tokens > 0
             THEN [allowed |-> TRUE,
                   buckets |-> [bs EXCEPT ![key] = [b EXCEPT !.tokens = b.tokens - 1]]]
             ELSE [allowed |-> FALSE, buckets |-> [bs EXCEPT ![key] = b]]

checkLimit(bs, key, t) == checkLimitAt(bs, key, t, refillIntervalMs)

\* cleanupAt that clears the whole map
cleanupAtAll(bs, t, intervalMs) == [o \in Owners |-> NoBucket]

\* RateLimiter.cleanup() at time t: the bucket map after it
cleanupAt(bs, t, intervalMs) ==
    LET maxAge == intervalMs * 2
    IN  [o \in Owners |->
           IF bs[o] # NoBucket /\ t - bs[o].lastRefill > maxAge /\ bs[o].tokens = maxTokens
           THEN NoBucket
           ELSE bs[o]]

cleanup(bs, t) == cleanupAt(bs, t, refillIntervalMs)

\* RateLimiter.getRetryAfter(key) at time t, in milliseconds
getRetryAfter(bs, key, t) ==
    IF bs[key] = NoBucket
    THEN 0
    ELSE Max(0, refillIntervalMs - (t - bs[key].lastRefill))

\* Math.ceil(retryAfterMs / 1000)
retryAfterSeconds(retryAfterMs) == CeilDiv(retryAfterMs, 1000)

(***************************************************************************)
(* uploaded_images and the image utilities                                 *)
(***************************************************************************)
requiredAngles == <<"front", "left_45", "right_45">>
USER_PHOTOS == "user-photos"
NullTime == -1

\* new URL(storage_url).pathname.split('/') of a well-formed public URL
PublicPath(rest) == <<"", "storage", "v1", "object", "public", USER_PHOTOS>> \o rest

Url(valid, path) == [valid |-> valid, path |-> path]

Image(id, user, angle, url, created, deleted) ==
    [id |-> id, user_id |-> user, angle |-> angle, storage_url |-> url,
     created_at |-> created, deleted_at |-> deleted]

GoodUrl(user, file) == Url(TRUE, PublicPath(<<user, file>>))

\* u1 has uploaded every angle (front twice, and a newer left_45 that was
\* deleted again); u2 has never uploaded left_45.
BaseImages ==
    { Image(1, "u1", "front",    GoodUrl("u1", "front_old.jpg"), 1, NullTime),
      Image(2, "u1", "front",    GoodUrl("u1", "front.jpg"),     5, NullTime),
      Image(3, "u1", "left_45",  GoodUrl("u1", "left.jpg"),      2, NullTime),
      Image(4, "u1", "left_45",  GoodUrl("u1", "left_new.jpg"),  6, 7),
      Image(5, "u1", "right_45", GoodUrl("u1", "right.jpg"),     3, NullTime),
      Image(6, "u2", "front",    GoodUrl("u2", "front.jpg"),     4, NullTime),
      Image(7, "u2", "right_45", GoodUrl("u2", "right.jpg"),     4, NullTime) }

\* the same table, with u1's right_45 row holding a URL outside the bucket
BadPathImages ==
    (BaseImages \ {Image(5, "u1", "right_45", GoodUrl("u1", "right.jpg"), 3, NullTime)})
    \cup {Image(5, "u1", "right_45", Url(TRUE, <<"", "files", "right.jpg">>), 3, NullTime)}

ImageTables == {BaseImages, BadPathImages}

\* the rows the query of getUserImagesForAngles selects before order/limit
Matching(imgs, userId, angle) ==
    {i \in imgs : i.user_id = userId /\ i.angle = angle /\ i.deleted_at = NullTime}

\* Latest with the order ascending: the oldest row
LatestAscending(rows) == CHOOSE i \in rows : \A j \in rows : i.created_at <= j.created_at

\* .order('created_at', descending).limit(1)
Latest(rows) == CHOOSE i \in rows : \A j \in rows : j.created_at <= i.created_at

\* getUserImagesForAngles: queryError is the index of the query the database
\* fails (0: none).  ok, the rows found, the angle that stopped it and the
\* number of queries issued.
getUserImagesForAngles(imgs, userId, angles, queryError) ==
    LET Bad(k) == queryError = k \/ Matching(imgs, userId, angles[k]) = {}
        bad == {k \in 1..Len(angles) : Bad(k)}
        stop == IF bad = {} THEN 0 ELSE CHOOSE k \in bad : \A j \in bad : k <= j
    IN  IF stop = 0
        THEN [ok |-> TRUE,
              rows |-> [k \in 1..Len(angles) |-> Latest(Matching(imgs, userId, angles[k]))],
              angle |-> "", queries |-> Len(angles)]
        ELSE [ok |-> FALSE, rows |-> <<>>, angle |-> angles[stop], queries |-> stop]

\* pathParts.indexOf(bucketName), 1-based, 0 when absent
IndexOf(parts, x) ==
    LET hits == {k \in 1..Len(parts) : parts[k] = x}
    IN  IF hits = {} THEN 0 ELSE CHOOSE k \in hits : \A j \in hits : k <= j

\* pathParts.slice(bucketIndex + 1).join('/') is the empty string
JoinsToEmpty(parts) == parts = <<>> \/ parts = <<"">>

\* extractStoragePath: ok and the path segments after the bucket name
extractStoragePath(storageUrl, bucketName) ==
    LET idx == IndexOf(storageUrl.path, bucketName)
        tail == SubSeq(storageUrl.path, idx + 1, Len(storageUrl.path))
    IN  IF ~storageUrl.valid \/ idx = 0 \/ JoinsToEmpty(tail)
        THEN [ok |-> FALSE, path |-> <<>>]
        ELSE [ok |-> TRUE, path |-> tail]

SignedUrlExpiry == 360

\* data.signedUrl of createSignedUrl(storagePath, expiresInSeconds)
SignedUrl(path, expiresIn) == [valid |-> TRUE, path |-> path, expiresIn |-> expiresIn]

(***************************************************************************)
(* The model's reply and VisionAnalysisSchema                              *)
(***************************************************************************)
Fields == {"skinType", "confidence", "primaryConcern", "traits", "notes", "modelVersion"}
SkinTypes == {"Dry", "Oily", "Combination", "Normal", "Sensitive"}
Severities == {"low", "moderate", "high"}

Trait(id, name, severity, description) ==
    [id |-> id, name |-> name, severity |-> severity, description |-> description]

\* SkinTraitSchema
SkinTraitSchema(t) ==
    /\ t.id # ""
    /\ t.name # ""
    /\ t.severity \in Severities
    /\ t.description # ""

ConfidenceMin == 0
ConfidenceMax == 100

\* VisionAnalysisSchema.safeParse(p).success; present is the set of keys of p
VisionAnalysisSchema(p) ==
    /\ "skinType" \in p.present /\ p.skinType \in SkinTypes
    /\ "confidence" \in p.present
    /\ p.confidence >= ConfidenceMin /\ p.confidence <= ConfidenceMax
    /\ "primaryConcern" \in p.present /\ p.primaryConcern # ""
    /\ "traits" \in p.present /\ Len(p.traits) >= 1
    /\ \A k \in 1..Len(p.traits) : SkinTraitSchema(p.traits[k])
    /\ "modelVersion" \in p.present /\ p.modelVersion # ""

\* validationResult.data: notes defaults to []
ParsedData(p) ==
    [skinType |-> p.skinType, confidence |-> p.confidence,
     primaryConcern |-> p.primaryConcern, traits |-> p.traits,
     notes |-> IF "notes" \in p.present THEN p.notes ELSE <<>>,
     modelVersion |-> p.modelVersion]

Payload(present, skinType, confidence, primaryConcern, traits, notes, modelVersion) ==
    [present |-> present, skinType |-> skinType, confidence |-> confidence,
     primaryConcern |-> primaryConcern, traits |-> traits, notes |-> notes,
     modelVersion |-> modelVersion]

AcneHigh == Trait("acne", "Acne", "high", "Active breakouts")
Extreme == Trait("acne", "Acne", "extreme", "Active breakouts")

GoodPayload ==
    Payload(Fields, "Oily", 100, "acne", <<AcneHigh>>, <<"Use oil-free products">>, "gpt-4o-mini")

\* p without key f
Drop(p, f) ==
    [p EXCEPT !.present = @ \ {f},
              !.skinType = IF f = "skinType" THEN "" ELSE @,
              !.confidence = IF f = "confidence" THEN 0 ELSE @,
              !.primaryConcern = IF f = "primaryConcern" THEN "" ELSE @,
              !.traits = IF f = "traits" THEN <<>> ELSE @,
              !.notes = IF f = "notes" THEN <<>> ELSE @,
              !.modelVersion = IF f = "modelVersion" THEN "" ELSE @]

\* the replies the provider is given to send: the good one, and the good one
\* with one key changed or left out
Payloads ==
    {GoodPayload}
    \cup {[GoodPayload EXCEPT !.skinType = "SuperOily"]}
    \cup {[GoodPayload EXCEPT !.confidence = c] : c \in {-1, 101}}
    \cup {[GoodPayload EXCEPT !.traits = ts] : ts \in {<<>>, <<Extreme>>}}
    \cup {Drop(GoodPayload, f) : f \in Fields}

(***************************************************************************)
(* mapVisionToSummary                                                      *)
(***************************************************************************)
\* severityMap on an even scale
severityMapEven(severity) ==
    CASE severity = "low" -> 25
      [] severity = "moderate" -> 50
      [] severity = "high" -> 75

severityMap(severity) ==
    CASE severity = "low" -> 25
      [] severity = "moderate" -> 55
      [] severity = "high" -> 85

\* the last trait of the id instead of the first
getTraitSeverityLast(traits, traitId) ==
    LET hits == {k \in 1..Len(traits) : traits[k].id = traitId}
    IN  IF hits = {} THEN 0
        ELSE severityMap(traits[CHOOSE k \in hits : \A j \in hits : j <= k].severity)

\* visionResult.traits.find(t => t.id === traitId), then severityMap
getTraitSeverity(traits, traitId) ==
    LET hits == {k \in 1..Len(traits) : traits[k].id = traitId}
    IN  IF hits = {} THEN 0
        ELSE severityMap(traits[CHOOSE k \in hits : \A j \in hits : k <= j].severity)

\* skinTypeMap is an object literal: besides its five own keys a lookup finds
\* the members it inherits from Object.prototype
ObjectPrototypeKeys ==
    {"constructor", "hasOwnProperty", "isPrototypeOf", "propertyIsEnumerable",
     "toLocaleString", "toString", "valueOf", "__proto__", "__defineGetter__",
     "__defineSetter__", "__lookupGetter__", "__lookupSetter__"}

\* skinTypeMap[skinType] || 'normal'; an inherited member (a function or
\* the prototype object, truthy) is written as its name
skinTypeMap(skinType) ==
    CASE skinType = "Dry" -> "dry"
      [] skinType = "Oily" -> "oily"
      [] skinType = "Combination" -> "combination"
      [] skinType = "Normal" -> "normal"
      [] skinType = "Sensitive" -> "sensitive"
      [] skinType \in ObjectPrototypeKeys -> "Object.prototype." \o skinType
      [] OTHER -> "normal"

\* the number left as it is
RatioUnscaled(num, den) == [num |-> num, den |-> 1]

\* confidence / 100, kept as a fraction
Ratio(num, den) == [num |-> num, den |-> den]

mapVisionToSummary(userId, visionResult, completedAt) ==
    [user_id |-> userId,
     skin_type |-> skinTypeMap(visionResult.skinType),
     confidence |-> Ratio(visionResult.confidence, 100),
     primary_concern |-> visionResult.primaryConcern,
     updatedAt |-> completedAt,
     series |-> <<[date |-> completedAt,
                   acne |-> getTraitSeverity(visionResult.traits, "acne"),
                   dryness |-> getTraitSeverity(visionResult.traits, "dryness"),
                   pigmentation |-> getTraitSeverity(visionResult.traits, "hyperpigmentation")]>>,
     notes |-> visionResult.notes,
     modelVersion |-> visionResult.modelVersion]

(***************************************************************************)
(* Errors.  A message is a sequence of text fragments.                     *)
(***************************************************************************)
Err(class, message, code, retryable, status) ==
    [class |-> class, message |-> message, code |-> code,
     retryable |-> retryable, status |-> status]

ImageRetrievalError(message, code) == Err("ImageRetrievalError", message, code, FALSE, 0)
VisionAnalysisError(message, retryable) == Err("VisionAnalysisError", message, "", retryable, 0)
APIError(status, message) == Err("APIError", message, "", FALSE, status)

\* AnalysisServiceError(message, code, userMessage)
AnalysisServiceError(message, code, userMessage) ==
    [class |-> "AnalysisServiceError", message |-> message, code |-> code,
     userMessage |-> userMessage]

MsgCreateFailed == "Could not start analysis. Please try again."
MsgSaveFailed == "Analysis completed but could not save results. Please try again."
MsgMissingImages == "Please upload all three required images (front, left 45, right 45) before starting analysis."
MsgUnavailable == "Our skin analysis service is temporarily unavailable. Please try again in a few moments."
MsgUnexpected == "An unexpected error occurred. Please try again."

\* TranslateError handing on the text of the error as the user message
TranslateErrorRaw(e) ==
    CASE e.class = "ImageRetrievalError" ->
            AnalysisServiceError(e.message, "missing_images", e.message)
      [] e.class = "VisionAnalysisError" ->
            AnalysisServiceError(e.message, "vision_api_failed", e.message)
      [] e.class = "AnalysisServiceError" ->
            AnalysisServiceError(e.message, e.code, e.userMessage)
      [] OTHER ->
            AnalysisServiceError(e.message, "unknown_error", e.message)

\* the re-throw at the end of the catch block of startOpenAIVisionAnalysis
TranslateError(e) ==
    CASE e.class = "ImageRetrievalError" ->
            AnalysisServiceError(e.message, "missing_images", MsgMissingImages)
      [] e.class = "VisionAnalysisError" ->
            AnalysisServiceError(e.message, "vision_api_failed", MsgUnavailable)
      [] e.class = "AnalysisServiceError" ->
            AnalysisServiceError(e.message, e.code, e.userMessage)
      [] OTHER ->
            AnalysisServiceError(e.message, "unknown_error", MsgUnexpected)

\* an AnalysisServiceError raised inside the try block, as the catch sees it
Raised(message, code, userMessage) ==
    [class |-> "AnalysisServiceError", message |-> message, code |-> code,
     retryable |-> FALSE, status |-> 0, userMessage |-> userMessage]

(***************************************************************************)
(* Responses of POST /api/analysis/start                                   *)
(***************************************************************************)
Response(status, code, userMessage, retryAfter, summary) ==
    [status |-> status, code |-> code, userMessage |-> userMessage,
     retryAfter |-> retryAfter, summary |-> summary]

NoRetryAfter == -1

\* fail(status, code, message, details) of lib/http/response: the caller is
\* answered with that status, the code of the failure and the user-facing
\* message.  The details handed over are diagnostic: what the caller is
\* shown holds no internal error text.
fail(status, code, message, details) ==
    Response(status, code, message, NoRetryAfter, <<>>)

\* the catch block of POST for an AnalysisServiceError
FailResponse(ase) ==
    fail(IF ase.code = "missing_images" THEN 400 ELSE 500,
         ase.code, ase.userMessage, [technicalMessage |-> ase.message])

\* the 429 body and Retry-After header
RateLimitResponse(seconds) ==
    Response(429, "rate_limit_exceeded", "You have exceeded the analysis rate limit",
             seconds, <<>>)

UnauthorizedResponse ==
    Response(401, "unauthorized", "You must be logged in to start an analysis",
             NoRetryAfter, <<>>)

InternalErrorResponse(message) ==
    fail(500, "internal_server_error",
         "An unexpected error occurred while starting the analysis. Please try again.",
         [technicalMessage |-> message])

OkResponse(summary) == Response(200, "", "", NoRetryAfter, <<summary>>)

(***************************************************************************)
(* skin_analyses                                                           *)
(***************************************************************************)
NullScore == -1

\* the row insert() creates; created_at defaults to NOW()
NewRow(userId, t) ==
    [user_id |-> userId, status |-> "uploading", detected_traits |-> <<>>,
     confidence_score |-> NullScore, image_ids |-> <<>>, error_message |-> <<>>,
     created_at |-> t, completed_at |-> NullTime]

\* UpdateStatus filtering on the owner: .eq('user_id', userId)
UpdateStatusOfOwner(rows, id, status) ==
    [i \in DOMAIN rows |->
        IF rows[i].user_id = rows[id].user_id THEN [rows[i] EXCEPT !.status = status]
        ELSE rows[i]]

\* .update({ status }).eq('id', id)
UpdateStatus(rows, id, status) == [rows EXCEPT ![id].status = status]

\* UpdateResults on every row of the record's owner: .eq('user_id', userId)
UpdateResultsOfOwner(rows, id, visionResult, imageIds, completedAt) ==
    [i \in DOMAIN rows |->
        IF rows[i].user_id = rows[id].user_id
        THEN [rows[i] EXCEPT !.detected_traits = visionResult.traits,
                             !.confidence_score = visionResult.confidence,
                             !.image_ids = imageIds,
                             !.completed_at = completedAt,
                             !.status = "complete"]
        ELSE rows[i]]

\* UpdateResults without status: 'complete'
UpdateResultsKeepStatus(rows, id, visionResult, imageIds, completedAt) ==
    [rows EXCEPT ![id].detected_traits = visionResult.traits,
                 ![id].confidence_score = visionResult.confidence,
                 ![id].image_ids = imageIds,
                 ![id].completed_at = completedAt]

\* the update that saves the results (step 5)
UpdateResults(rows, id, visionResult, imageIds, completedAt) ==
    [rows EXCEPT ![id].detected_traits = visionResult.traits,
                 ![id].confidence_score = visionResult.confidence,
                 ![id].image_ids = imageIds,
                 ![id].completed_at = completedAt,
                 ![id].status = "complete"]

\* the update of the catch block
UpdateError(rows, id, errorMessage) ==
    [rows EXCEPT ![id].status = "error", ![id].error_message = errorMessage]

(***************************************************************************)
(* callVision: outcomes of one request to the provider                     *)
(***************************************************************************)
maxAttempts == 3
baseDelayMs == 1000
maxDelayMs == 10000

\* values of Math.random(), in thousandths
Randoms == {0, 500, 999}

RECURSIVE Pow2(_)
Pow2(n) == IF n = 0 THEN 1 ELSE 2 * Pow2(n - 1)

\* getRetryDelay with the jitter on both sides of the exponential delay
getRetryDelaySymmetric(attempt, random) ==
    LET exponentialDelay == baseDelayMs * Pow2(attempt)
        jitter == ((2 * random - 1000) * 3 * exponentialDelay) \div 10
    IN  Min(exponentialDelay * 1000 + jitter, maxDelayMs * 1000)

\* getRetryDelay(attempt) for Math.random() = random / 1000, in microseconds
\* (whole for these values of random)
getRetryDelay(attempt, random) ==
    LET exponentialDelay == baseDelayMs * Pow2(attempt)
        jitter == (random * 3 * exponentialDelay) \div 10
    IN  Min(exponentialDelay * 1000 + jitter, maxDelayMs * 1000)

VisionOutcomes ==
    {[label |-> "json", payload |-> p] : p \in Payloads}
    \cup {[label |-> l, payload |-> GoodPayload] :
            l \in {"empty", "badjson", "api429", "api503", "api400", "timeout"}}

\* status of an error the client raises without an HTTP answer (undefined)
NoStatus == 0

\* the error thrown inside the try block of the retry loop; <<>> when the
\* attempt returns validationResult.data
AttemptError(outcome) ==
    CASE outcome.label = "json" ->
            IF VisionAnalysisSchema(outcome.payload) THEN <<>>
            ELSE <<VisionAnalysisError(<<"OpenAI response does not match expected schema">>, FALSE)>>
      [] outcome.label = "empty" ->
            <<VisionAnalysisError(<<"OpenAI returned empty response">>, TRUE)>>
      [] outcome.label = "badjson" ->
            <<VisionAnalysisError(<<"OpenAI response is not valid JSON">>, FALSE)>>
      [] outcome.label = "api429" -> <<APIError(429, <<"Rate limit reached for requests">>)>>
      [] outcome.label = "api503" -> <<APIError(503, <<"The server is overloaded">>)>>
      [] outcome.label = "api400" -> <<APIError(400, <<"Invalid image">>)>>
      [] outcome.label = "timeout" -> <<APIError(NoStatus, <<"Request timed out.">>)>>

\* what the attempt is remembered as
OutcomeLabel(outcome) ==
    IF outcome.label = "json"
    THEN IF VisionAnalysisSchema(outcome.payload) THEN "ok" ELSE "schema"
    ELSE outcome.label

\* isRetryableError that also retries client errors (status >= 400)
isRetryableErrorClientToo(e) ==
    /\ e.class = "APIError"
    /\ e.status >= 400 /\ e.status < 600

isRetryableError(e) ==
    /\ e.class = "APIError"
    /\ (e.status = 429 \/ (e.status >= 500 /\ e.status < 600))

\* CatchDecision that retries whatever failed while attempts remain
CatchDecisionRetryAll(e, attempt) ==
    IF attempt = maxAttempts - 1 THEN "break" ELSE "retry"

\* the catch block of the retry loop: "throw" (re-throw error), "break"
\* (leave the loop, attempts exhausted) or "retry"
CatchDecision(e, attempt) ==
    IF e.class = "VisionAnalysisError" /\ ~e.retryable THEN "throw"
    ELSE IF attempt = maxAttempts - 1 THEN "break"
    ELSE IF ~isRetryableError(e) THEN "throw"
    ELSE "retry"

ExhaustedError ==
    VisionAnalysisError(<<"OpenAI Vision API failed after ", "3", " attempts">>, FALSE)

\* the input validation at the top of callVision; <<>> when it passes
InputError(urls) ==
    IF Len(urls) # 3
    THEN <<VisionAnalysisError(<<"Expected exactly 3 image URLs, received ", "n">>, FALSE)>>
    ELSE IF \E k \in 1..Len(urls) : ~urls[k].valid
         THEN <<VisionAnalysisError(<<"Invalid image URL: ", "url">>, FALSE)>>
         ELSE <<>>

(***************************************************************************)
(* Requests.  A slot holds the local state of one running POST; pc names   *)
(* the await it is suspended at.                                           *)
(***************************************************************************)

Slots == 1..MaxRequests
NoUser == "anonymous"

NoCalls == [lookups |-> 0, mints |-> 0, model |-> 0]

Fresh ==
    [pc |-> "idle", user |-> "", analysisId |-> 0, rows |-> <<>>, urls |-> <<>>,
     attempt |-> 0, lastOutcome |-> "", reply |-> <<>>, visionResult |-> <<>>,
     completedAt |-> NullTime,
     err |-> <<>>, response |-> <<>>, calls |-> NoCalls, gate |-> "", consumed |-> 0,
     op |-> "", delay |-> 0]

\* the request has answered: only what it did and what it answered is kept
Finish(q, response) ==
    [Fresh EXCEPT !.pc = "done", !.op = q.op, !.user = q.user, !.analysisId = q.analysisId,
                  !.calls = q.calls, !.gate = q.gate, !.consumed = q.consumed,
                  !.err = q.err,
                  !.response = <<response>>]

\* an exception reaches the catch block of startOpenAIVisionAnalysis after
\* the record was created: the error update is issued
Caught(q, e) ==
    [q EXCEPT !.pc = "errwrite", !.err = <<e>>, !.lastOutcome = "", !.reply = <<>>,
              !.attempt = 0, !.rows = <<>>, !.urls = <<>>, !.visionResult = <<>>]

\* tokens the bucket holds for key at time t, once the refill block has run
Available(bs, key, t) ==
    IF bs[key] = NoBucket THEN maxTokens
    ELSE Refill(bs[key], t, refillIntervalMs).tokens

\* The bucket map when the first request of the model arrives: empty, or
\* left by three earlier requests of u1 at the same millisecond whose insert
\* failed (they created no record).
InitialBuckets ==
    { [o \in Owners |-> NoBucket],
      [o \in Owners |-> IF o = "u1" THEN [tokens |-> 0, lastRefill |-> 0] ELSE NoBucket] }

Init ==
    /\ now = 0
    /\ buckets \in InitialBuckets
    /\ log = <<>>
    /\ records = <<>>
    /\ images \in ImageTables
    /\ images = BadPathImages => buckets = [o \in Owners |-> NoBucket]
    /\ req = [r \in Slots |-> Fresh]

\* POST answers 401
Rejected(q, who) == Finish([q EXCEPT !.op = "POST", !.user = who], UnauthorizedResponse)

\* POST answers 429
Denied(q, who, seconds) ==
    Finish([q EXCEPT !.op = "POST", !.user = who, !.gate = "denied"],
           RateLimitResponse(seconds))

\* POST calls startOpenAIVisionAnalysis(user.id), which awaits
\* createServerClient()
Admitted(q, who, consumed) ==
    [q EXCEPT !.pc = "client", !.op = "POST", !.user = who, !.gate = "allowed",
              !.consumed = consumed]

\* PostAs with the check of the limiter's answer left out
PostAsUngated(r, who) ==
    LET q == req[r]
        res == checkLimit(buckets, who, now)
    IN  IF who = NoUser
        THEN /\ req' = [req EXCEPT ![r] = Rejected(q, who)]
             /\ UNCHANGED buckets
        ELSE /\ buckets' = res.buckets
             /\ req' = [req EXCEPT ![r] =
                    [Admitted(q, who, Available(buckets, who, now) - res.buckets[who].tokens)
                        EXCEPT !.gate = IF res.allowed THEN "allowed" ELSE "denied"]]

\* PostAs testing authError alone: user.id of a null user throws
PostAsAuthErrorOnly(r, who) ==
    LET q == req[r]
        res == checkLimit(buckets, who, now)
    IN  IF who = NoUser
        THEN /\ req' = [req EXCEPT ![r] =
                    Finish([q EXCEPT !.op = "POST", !.user = who],
                           InternalErrorResponse(<<"Cannot read properties of null">>))]
             /\ UNCHANGED buckets
        ELSE /\ buckets' = res.buckets
             /\ req' = [req EXCEPT ![r] =
                    IF ~res.allowed
                    THEN Denied(q, who, retryAfterSeconds(getRetryAfter(res.buckets, who, now)))
                    ELSE Admitted(q, who, Available(buckets, who, now)
                                          - res.buckets[who].tokens)]

\* POST from the answer of getUser() up to the first await inside
\* startOpenAIVisionAnalysis, for the identity getUser() reports
PostAs(r, who) ==
    LET q == req[r]
        res == checkLimit(buckets, who, now)
    IN  IF who = NoUser
        THEN /\ req' = [req EXCEPT ![r] = Rejected(q, who)]
             /\ UNCHANGED buckets
        ELSE /\ buckets' = res.buckets
             /\ req' = [req EXCEPT ![r] =
                    IF ~res.allowed
                    THEN Denied(q, who, retryAfterSeconds(getRetryAfter(res.buckets, who, now)))
                    ELSE Admitted(q, who, Available(buckets, who, now)
                                          - res.buckets[who].tokens)]

PostStart(r) ==
    /\ req[r].pc = "idle"
    /\ \A r2 \in Slots : r2 < r => req[r2].pc # "idle"
    /\ \E who \in Owners \cup {NoUser} : PostAs(r, who)
    /\ UNCHANGED <<now, log, records, images>>

\* what createServerClient() or getUser() may throw: an Error, or a value
\* that is not an Error
Thrown ==
    {[isError |-> TRUE, message |-> <<"cookies unavailable">>],
     [isError |-> FALSE, message |-> <<"boom">>]}

\* error instanceof Error ? error.message : 'Unknown error'
ThrownMessage(e) == IF e.isError THEN e.message ELSE <<"Unknown error">>

\* createServerClient() or getUser() throws: the catch block of POST
PostThrows(r) ==
    /\ req[r].pc = "idle"
    /\ \A r2 \in Slots : r2 < r => req[r2].pc # "idle"
    /\ \E e \in Thrown :
         req' = [req EXCEPT ![r] = Finish([req[r] EXCEPT !.op = "POST"],
                                          InternalErrorResponse(ThrownMessage(e)))]
    /\ UNCHANGED <<now, buckets, log, records, images>>

\* createServerClient() of startOpenAIVisionAnalysis settles: the insert is
\* issued, or the exception leaves the function (the await is outside its
\* try block) and reaches the catch block of POST
CreateClient(r) ==
    LET q == req[r]
    IN  /\ q.pc = "client"
        /\ \/ req' = [req EXCEPT ![r] = [q EXCEPT !.pc = "insert"]]
           \/ \E e \in Thrown :
                req' = [req EXCEPT ![r] =
                    Finish(q, InternalErrorResponse(ThrownMessage(e)))]
        /\ UNCHANGED <<now, buckets, log, records, images>>

\* error.message of a failed database call
DbErrors == {"connection timeout"}

\* step 1: the insert settles.  createError || !analysisRow throws with
\* `${createError?.message}`: the message of the error, or undefined when
\* there is no row and no error
InsertRecord(r) ==
    LET q == req[r]
    IN  /\ q.pc = "insert"
        /\ \/ /\ records' = Append(records, NewRow(q.user, now))
              /\ req' = [req EXCEPT ![r] =
                     [q EXCEPT !.pc = "screening", !.analysisId = Len(records) + 1]]
           \/ /\ \E m \in DbErrors \cup {"undefined"} :
                    req' = [req EXCEPT ![r] =
                        Finish(q, FailResponse(TranslateError(
                            Raised(<<"Failed to create analysis record: ", m>>,
                                   "db_create_failed", MsgCreateFailed))))]
              /\ UNCHANGED records
        /\ UNCHANGED <<now, buckets, log, images>>

\* step 2: the update to 'screening' settles (its result is not looked at)
\* and the first query of getUserImagesForAngles is issued
UpdateScreening(r) ==
    LET q == req[r]
    IN  /\ q.pc = "screening"
        /\ \/ records' = UpdateStatus(records, q.analysisId, "screening")
           \/ UNCHANGED records
        /\ req' = [req EXCEPT ![r] = [q EXCEPT !.pc = "lookup", !.calls.lookups = 1]]
        /\ UNCHANGED <<now, buckets, log, images>>

\* the URL loop of getSignedImageUrls reaches row k: extractStoragePath
\* throws, or createSignedUrl is issued
NextUrl(q, k) ==
    IF extractStoragePath(q.rows[k].storage_url, USER_PHOTOS).ok
    THEN [q EXCEPT !.pc = "mint", !.calls.mints = k]
    ELSE Caught(q, ImageRetrievalError(<<"Invalid storage URL format: ", "storage_url">>,
                                       "invalid_storage_url"))

\* Lookup without the test of error || !data: an angle without a row is
\* passed over
LookupUnchecked(r) ==
    LET q == req[r]
        k == q.calls.lookups
        hit == Matching(images, q.user, requiredAngles[k])
        found == [q EXCEPT !.rows = IF hit = {} THEN @ ELSE Append(@, Latest(hit))]
    IN  /\ q.pc = "lookup"
        /\ req' = [req EXCEPT ![r] =
              IF k < Len(requiredAngles)
              THEN [found EXCEPT !.calls.lookups = k + 1]
              ELSE NextUrl(found, 1)]
        /\ UNCHANGED <<now, buckets, log, records, images>>

\* getUserImagesForAngles: the query for angle number calls.lookups settles.
\* With a row the next query is issued or, after the last angle, the URL
\* loop starts; with an error or without a row the function throws
Lookup(r) ==
    LET q == req[r]
        k == q.calls.lookups
        hit == Matching(images, q.user, requiredAngles[k])
    IN  /\ q.pc = "lookup"
        /\ \E queryError \in BOOLEAN :
             req' = [req EXCEPT ![r] =
                IF queryError \/ hit = {}
                THEN Caught(q, ImageRetrievalError(
                        <<"Missing required image for angle: ", requiredAngles[k]>>,
                        "missing_image"))
                ELSE LET found == [q EXCEPT !.rows = Append(@, Latest(hit))]
                     IN  IF k < Len(requiredAngles)
                         THEN [found EXCEPT !.calls.lookups = k + 1]
                         ELSE NextUrl(found, 1)]
        /\ UNCHANGED <<now, buckets, log, records, images>>

\* getSignedUrl: createSignedUrl for row number calls.mints settles.  With a
\* URL the loop goes on to the next row or, after the last, the update to
\* 'detecting' is issued; with an error or without a URL it throws, with
\* error?.message || 'Unknown error'
Mint(r) ==
    LET q == req[r]
        k == q.calls.mints
        path == extractStoragePath(q.rows[k].storage_url, USER_PHOTOS).path
    IN  /\ q.pc = "mint"
        /\ \/ req' = [req EXCEPT ![r] =
                 LET minted == [q EXCEPT !.urls = Append(@, SignedUrl(path, SignedUrlExpiry))]
                 IN  IF k < Len(q.rows)
                     THEN NextUrl(minted, k + 1)
                     ELSE [minted EXCEPT !.pc = "detecting"]]
           \/ \E m \in {"Object not found", "Unknown error"} :
                req' = [req EXCEPT ![r] =
                    Caught(q, ImageRetrievalError(<<"Failed to create signed URL: ", m>>,
                                                  "signed_url_failed"))]
        /\ UNCHANGED <<now, buckets, log, records, images>>

\* step 3: the update to 'detecting' settles (its result is not looked at)
\* and callVision is entered
UpdateDetecting(r) ==
    LET q == req[r]
    IN  /\ q.pc = "detecting"
        /\ \/ records' = UpdateStatus(records, q.analysisId, "detecting")
           \/ UNCHANGED records
        /\ req' = [req EXCEPT ![r] = [q EXCEPT !.pc = "callVision"]]
        /\ UNCHANGED <<now, buckets, log, images>>

\* callVision has returned or thrown (pc afterVision).  Called by
\* startOpenAIVisionAnalysis, which has a record, the caller goes on in the
\* same step: to the catch block, or to step 4, where the update to
\* 'generating' is issued.  Called on its own, the call has ended.
Returned(q) ==
    IF q.pc # "afterVision" \/ q.analysisId = 0 THEN q
    ELSE IF q.err # <<>> THEN Caught(q, q.err[1])
    ELSE [q EXCEPT !.pc = "generating", !.lastOutcome = "", !.reply = <<>>, !.attempt = 0]

\* callVision: input validation, then the first request is sent
CallVisionEntry(r) ==
    LET q == req[r]
        bad == InputError(q.urls)
    IN  /\ q.pc = "callVision"
        /\ req' = [req EXCEPT ![r] =
              IF bad # <<>>
              THEN Returned([q EXCEPT !.pc = "afterVision", !.err = bad])
              ELSE [q EXCEPT !.pc = "vision", !.attempt = 0, !.calls.model = @ + 1]]
        /\ UNCHANGED <<now, buckets, log, records, images>>

\* callVision: the provider answers attempt q.attempt
VisionResponse(r) ==
    LET q == req[r]
    IN  /\ q.pc = "vision"
        /\ \E outcome \in VisionOutcomes :
           \E random \in IF /\ AttemptError(outcome) # <<>>
                            /\ CatchDecision(AttemptError(outcome)[1], q.attempt) = "retry"
                         THEN Randoms ELSE {0} :
             LET e == AttemptError(outcome)
                 seen == [q EXCEPT !.lastOutcome = OutcomeLabel(outcome),
                                   !.reply = IF outcome.label = "json"
                                             THEN <<outcome.payload>> ELSE <<>>]
                 decision == CatchDecision(e[1], q.attempt)
             IN  req' = [req EXCEPT ![r] = Returned(
                    IF e = <<>>
                    THEN [seen EXCEPT !.pc = "afterVision",
                                      !.visionResult = <<ParsedData(outcome.payload)>>]
                    ELSE IF decision = "throw"
                    THEN [seen EXCEPT !.pc = "afterVision", !.err = e]
                    ELSE IF decision = "break"
                    THEN [seen EXCEPT !.pc = "afterVision", !.err = <<ExhaustedError>>]
                    ELSE [seen EXCEPT !.pc = "backoff", !.attempt = @ + 1,
                                      !.reply = <<>>,
                                      !.delay = getRetryDelay(q.attempt, random)])]
        /\ UNCHANGED <<now, buckets, log, records, images>>

\* callVision: the retry delay has passed and the next request is sent
Backoff(r) ==
    LET q == req[r]
    IN  /\ q.pc = "backoff"
        /\ req' = [req EXCEPT ![r] =
              [q EXCEPT !.pc = "vision", !.lastOutcome = "", !.calls.model = @ + 1,
                        !.delay = 0]]
        /\ UNCHANGED <<now, buckets, log, records, images>>

\* step 4: the update to 'generating' settles (its result is not looked
\* at); completedAt is taken and the save is issued
UpdateGenerating(r) ==
    LET q == req[r]
    IN  /\ q.pc = "generating"
        /\ \/ records' = UpdateStatus(records, q.analysisId, "generating")
           \/ UNCHANGED records
        /\ req' = [req EXCEPT ![r] = [q EXCEPT !.pc = "save", !.completedAt = now]]
        /\ UNCHANGED <<now, buckets, log, images>>

\* SaveResults that does not look at updateError
SaveResultsUnchecked(r) ==
    LET q == req[r]
        ids == [k \in 1..Len(q.rows) |-> q.rows[k].id]
    IN  /\ q.pc = "save"
        /\ \/ records' = UpdateResults(records, q.analysisId, q.visionResult[1],
                                        ids, q.completedAt)
           \/ UNCHANGED records
        /\ req' = [req EXCEPT ![r] =
               Finish(q, OkResponse(mapVisionToSummary(
                           q.user, q.visionResult[1], q.completedAt)))]
        /\ UNCHANGED <<now, buckets, log, images>>

\* step 5 and 6: the update that saves the results resolves
SaveResults(r) ==
    LET q == req[r]
        ids == [k \in 1..Len(q.rows) |-> q.rows[k].id]
    IN  /\ q.pc = "save"
        /\ \/ /\ records' = UpdateResults(records, q.analysisId, q.visionResult[1],
                                          ids, q.completedAt)
              /\ req' = [req EXCEPT ![r] =
                     Finish(q, OkResponse(mapVisionToSummary(
                                 q.user, q.visionResult[1], q.completedAt)))]
           \/ /\ \E m \in DbErrors :
                    req' = [req EXCEPT ![r] =
                        Caught(q, Raised(<<"Failed to save analysis results: ", m>>,
                                         "db_update_failed", MsgSaveFailed))]
              /\ UNCHANGED records
        /\ UNCHANGED <<now, buckets, log, images>>

\* ErrorWrite of a catch block that runs once more after it has answered
ErrorWriteAgain(r) ==
    LET q == req[r]
    IN  \/ /\ q.pc = "errwrite"
           /\ \/ records' = UpdateError(records, q.analysisId, q.err[1].message)
              \/ UNCHANGED records
           /\ req' = [req EXCEPT ![r] = Finish(q, FailResponse(TranslateError(q.err[1])))]
           /\ UNCHANGED <<now, buckets, log, images>>
        \/ /\ q.pc = "done" /\ q.op = "POST" /\ q.analysisId # 0
           /\ records[q.analysisId].status = "complete"
           /\ records' = UpdateError(records, q.analysisId, <<"Unknown error occurred">>)
           /\ UNCHANGED <<now, buckets, log, images, req>>

\* the catch block: the error update settles (its result is not looked
\* at), the error is translated and POST answers
ErrorWrite(r) ==
    LET q == req[r]
    IN  /\ q.pc = "errwrite"
        /\ \/ records' = UpdateError(records, q.analysisId, q.err[1].message)
           \/ UNCHANGED records
        /\ req' = [req EXCEPT ![r] = Finish(q, FailResponse(TranslateError(q.err[1])))]
        /\ UNCHANGED <<now, buckets, log, images>>

(***************************************************************************)
(* GET /api/analysis/latest                                                *)
(***************************************************************************)
\* the rows the query selects: the user's rows in status 'complete'
Completed(rows, userId) ==
    {i \in DOMAIN rows : rows[i].user_id = userId /\ rows[i].status = "complete"}

\* LatestCompleted ordering by creation: the newest row comes first
LatestCompletedByCreation(rows, userId) ==
    {i \in Completed(rows, userId) : \A j \in Completed(rows, userId) : j <= i}

\* .order('completed_at', { ascending: false }).limit(1): the rows the
\* database may return first (any of those with the greatest completed_at)
LatestCompleted(rows, userId) ==
    {i \in Completed(rows, userId) :
        \A j \in Completed(rows, userId) : rows[j].completed_at <= rows[i].completed_at}

\* getTraitSeverity of GET
latestTraitSeverity(traits, traitId) ==
    LET hits == {k \in 1..Len(traits) : traits[k].id = traitId}
    IN  IF hits = {} THEN 0
        ELSE LET sev == traits[CHOOSE k \in hits : \A j \in hits : k <= j].severity
             IN  CASE sev = "low" -> 25 [] sev = "moderate" -> 55 [] sev = "high" -> 85

\* a trait of low severity counts as well
HasTraitAnySeverity(traits, traitId) ==
    \E k \in 1..Len(traits) : traits[k].id = traitId

\* traits.some(t => t.id === traitId && t.severity !== 'low')
HasTrait(traits, traitId) ==
    \E k \in 1..Len(traits) : traits[k].id = traitId /\ traits[k].severity # "low"

\* skin type inferred from the traits
inferSkinType(traits) ==
    IF HasTrait(traits, "oiliness") /\ HasTrait(traits, "dryness") THEN "combination"
    ELSE IF HasTrait(traits, "oiliness") THEN "oily"
    ELSE IF HasTrait(traits, "dryness") THEN "dry"
    ELSE IF HasTrait(traits, "sensitivity") THEN "sensitive"
    ELSE "normal"

severityOrder(severity) ==
    CASE severity = "high" -> 3 [] severity = "moderate" -> 2 [] severity = "low" -> 1

\* sortedTraits[0]?.name || 'No major concerns' (the sort is stable)
latestPrimaryConcern(traits) ==
    IF traits = <<>> THEN "No major concerns"
    ELSE LET top == {k \in 1..Len(traits) :
                        \A j \in 1..Len(traits) :
                            severityOrder(traits[j].severity) <= severityOrder(traits[k].severity)}
             first == CHOOSE k \in top : \A j \in top : k <= j
         IN  IF traits[first].name = "" THEN "No major concerns" ELSE traits[first].name

\* s.filter(keep): the subsequence of the traits whose severity is not low
RECURSIVE NotLow(_)
NotLow(traits) ==
    IF traits = <<>> THEN <<>>
    ELSE IF Head(traits).severity # "low"
         THEN <<Head(traits)>> \o NotLow(Tail(traits))
         ELSE NotLow(Tail(traits))

\* notes: `${t.name}: ${t.description}` of at most 4 traits, or the fallback
latestNotes(traits) ==
    LET kept == NotLow(traits)
        cut == SubSeq(kept, 1, Min(4, Len(kept)))
    IN  IF cut = <<>>
        THEN <<"Analysis complete. Check your routine recommendations.">>
        ELSE [k \in 1..Len(cut) |-> cut[k].name \o ": " \o cut[k].description]

\* values of process.env.OPENAI_VISION_MODEL: unset (the empty string), or
\* the name of a model
EnvModels == {"", "gpt-4o"}

\* process.env.OPENAI_VISION_MODEL || 'gpt-4o-mini'
LatestModelVersion(env) == IF env = "" THEN "gpt-4o-mini" ELSE env

\* the AnalysisSummary GET builds from a row
latestSummary(userId, row, env) ==
    LET traits == row.detected_traits
        date == IF row.completed_at # NullTime THEN row.completed_at ELSE row.created_at
    IN  [user_id |-> userId,
         skin_type |-> inferSkinType(traits),
         confidence |-> Ratio(IF row.confidence_score = NullScore THEN 0
                              ELSE row.confidence_score, 100),
         primary_concern |-> latestPrimaryConcern(traits),
         updatedAt |-> date,
         series |-> <<[date |-> date,
                       acne |-> latestTraitSeverity(traits, "acne"),
                       dryness |-> latestTraitSeverity(traits, "dryness"),
                       pigmentation |-> latestTraitSeverity(traits, "hyperpigmentation")]>>,
         notes |-> latestNotes(traits),
         modelVersion |-> LatestModelVersion(env),
         detected_traits |-> traits]

\* the bodies GET answers with
LatestUnauthorized == Response(401, "unauthorized", "Unauthorized", NoRetryAfter, <<>>)
LatestDbError == Response(500, "db_error", "Failed to fetch analysis", NoRetryAfter, <<>>)
LatestInternalError ==
    Response(500, "internal_error", "Internal server error", NoRetryAfter, <<>>)
\* { success: true, data: null }
LatestNone == Response(200, "", "", NoRetryAfter, <<>>)
LatestFound(summary) == Response(200, "", "", NoRetryAfter, <<summary>>)

\* GET up to the await of the query, for the identity getUser() reports
GetStart(r) ==
    /\ req[r].pc = "idle"
    /\ \A r2 \in Slots : r2 < r => req[r2].pc # "idle"
    /\ \E who \in Owners \cup {NoUser} :
         req' = [req EXCEPT ![r] =
            IF who = NoUser
            THEN Finish([req[r] EXCEPT !.op = "GET", !.user = who], LatestUnauthorized)
            ELSE [req[r] EXCEPT !.pc = "query", !.op = "GET", !.user = who]]
    /\ UNCHANGED <<now, buckets, log, records, images>>

\* createServerClient() or getUser() throws: the catch block of GET
GetThrows(r) ==
    /\ req[r].pc = "idle"
    /\ \A r2 \in Slots : r2 < r => req[r2].pc # "idle"
    /\ req' = [req EXCEPT ![r] = Finish([req[r] EXCEPT !.op = "GET"], LatestInternalError)]
    /\ UNCHANGED <<now, buckets, log, records, images>>

\* the query resolves and GET answers
GetQuery(r) ==
    LET q == req[r]
    IN  /\ q.pc = "query"
        /\ \/ req' = [req EXCEPT ![r] = Finish(q, LatestDbError)]
           \/ /\ LatestCompleted(records, q.user) = {}
              /\ req' = [req EXCEPT ![r] = Finish(q, LatestNone)]
           \/ \E i \in LatestCompleted(records, q.user), env \in EnvModels :
                req' = [req EXCEPT ![r] =
                   Finish(q, LatestFound(latestSummary(q.user, records[i], env)))]
        /\ UNCHANGED <<now, buckets, log, records, images>>

\* time passes
Tick ==
    /\ now < MaxTicks * TickMs
    /\ now' = now + TickMs
    /\ UNCHANGED <<buckets, log, records, images, req>>

Next ==
    \/ Tick
    \/ \E r \in Slots :
         \/ PostStart(r)
         \/ PostThrows(r)
         \/ CreateClient(r)
         \/ InsertRecord(r)
         \/ UpdateScreening(r)
         \/ Lookup(r)
         \/ Mint(r)
         \/ UpdateDetecting(r)
         \/ CallVisionEntry(r)
         \/ VisionResponse(r)
         \/ Backoff(r)
         \/ UpdateGenerating(r)
         \/ SaveResults(r)
         \/ ErrorWrite(r)
         \/ GetStart(r)
         \/ GetThrows(r)
         \/ GetQuery(r)

Spec == Init /\ [][Next]_vars

\* the steps of the request in slot r once its handler has started
Run(r) ==
    \/ CreateClient(r) \/ InsertRecord(r) \/ UpdateScreening(r) \/ Lookup(r) \/ Mint(r)
    \/ UpdateDetecting(r) \/ CallVisionEntry(r) \/ VisionResponse(r) \/ Backoff(r)
    \/ UpdateGenerating(r) \/ SaveResults(r) \/ ErrorWrite(r)
    \/ GetQuery(r)

\* Every awaited call settles and the handler is resumed: the database and
\* the storage service answer or fail, the retry delay is a timer, and the
\* OpenAI client ends a request that gets no answer with a timeout error.
SpecLive == Init /\ [][Next]_vars /\ \A r \in Slots : WF_vars(Run(r))

(***************************************************************************)
(* callVision on its own, called with arbitrary URL lists                  *)
(***************************************************************************)

ValidUrl == SignedUrl(<<"u1", "front.jpg">>, SignedUrlExpiry)
InvalidUrl == [valid |-> FALSE, path |-> <<>>, expiresIn |-> 0]

UrlLists == UNION {[1..n -> {ValidUrl, InvalidUrl}] : n \in 0..MaxUrls}

VisionInit ==
    /\ now = 0
    /\ buckets = [o \in Owners |-> NoBucket]
    /\ log = <<>>
    /\ records = <<>>
    /\ images = BaseImages
    /\ \E urls \in UrlLists :
         req = [r \in Slots |->
                  IF r = 1 THEN [Fresh EXCEPT !.pc = "callVision", !.urls = urls]
                  ELSE Fresh]

VisionNext ==
    \E r \in Slots : CallVisionEntry(r) \/ VisionResponse(r) \/ Backoff(r)

SpecVision == VisionInit /\ [][VisionNext]_vars

(***************************************************************************)
(* The rate-limit gate of POST (step 2), applied to a sequence of timed    *)
(* requests; log records what each request was answered.                   *)
(***************************************************************************)
LimiterInit ==
    /\ now = 0
    /\ buckets = [o \in Owners |-> NoBucket]
    /\ log = <<>>
    /\ records = <<>>
    /\ images = BaseImages
    /\ req = [r \in Slots |-> Fresh]

Gate(o) ==
    /\ Len(log) < MaxChecks
    /\ LET res == checkLimit(buckets, o, now)
       IN  /\ buckets' = res.buckets
           /\ log' = Append(log,
                  [owner |-> o, at |-> now, allowed |-> res.allowed,
                   retryAfter |-> IF res.allowed THEN 0
                                  ELSE retryAfterSeconds(getRetryAfter(res.buckets, o, now))])
    /\ UNCHANGED <<now, records, images, req>>

LimiterTick ==
    /\ now < LimiterTicks * TickMs
    /\ now' = now + TickMs
    /\ UNCHANGED <<buckets, log, records, images, req>>

LimiterNext == LimiterTick \/ \E o \in Owners : Gate(o)

SpecLimiter == LimiterInit /\ [][LimiterNext]_vars

(***************************************************************************)
(* The rate limiter with its cleanup timer (setInterval, every 10 minutes) *)
(* over long idle times; a cleanup run is recorded in log under the owner  *)
(* name "cleanup".  No check leaves a bucket full, so cleanup removes      *)
(* nothing in the other specifications, which leave the timer out.         *)
(***************************************************************************)
CleanupRuns == {i \in 1..Len(log) : log[i].owner = "cleanup"}

Cleanup ==
    /\ now % CleanupIntervalMs = 0
    /\ Len(log) < MaxChecks
    /\ Cardinality(CleanupRuns) < MaxCleanups
    /\ buckets' = cleanup(buckets, now)
    /\ log' = Append(log, [owner |-> "cleanup", at |-> now, allowed |-> FALSE, retryAfter |-> 0])
    /\ UNCHANGED <<now, records, images, req>>

\* time passes: a third of the window, or twice the window
EvictionTick ==
    /\ \E step \in {TickMs, 2 * WindowMs} :
         /\ now + step <= 2 * WindowMs + TickMs
         /\ now' = now + step
    /\ UNCHANGED <<buckets, log, records, images, req>>

EvictionNext == EvictionTick \/ Cleanup \/ \E o \in Owners : Gate(o)

SpecEviction == LimiterInit /\ [][EvictionNext]_vars

(***************************************************************************)
(* GET /api/analysis/latest on its own, over the tables of skin_analyses   *)
(* that finished and unfinished analyses leave                             *)
(***************************************************************************)
Statuses == {"uploading", "screening", "detecting", "generating", "complete", "error"}

\* a row created at 0 as the orchestrator leaves it in status st (completed
\* at t when st is complete)
RowIn(userId, st, t) ==
    LET base == <<NewRow(userId, 0)>>
    IN  IF st = "complete"
        THEN UpdateResults(base, 1, ParsedData(GoodPayload), <<2, 3, 5>>, t)[1]
        ELSE IF st = "error"
        THEN UpdateError(base, 1, <<"OpenAI response is not valid JSON">>)[1]
        ELSE UpdateStatus(base, 1, st)[1]

RowsIn ==
    {RowIn(o, st, NullTime) : o \in Owners, st \in Statuses \ {"complete"}}
    \cup {RowIn(o, "complete", t) : o \in Owners, t \in {0, TickMs}}

LatestTables == UNION {[1..n -> RowsIn] : n \in 0..MaxRows}

LatestInit ==
    /\ now = TickMs
    /\ buckets = [o \in Owners |-> NoBucket]
    /\ log = <<>>
    /\ records \in LatestTables
    /\ images = BaseImages
    /\ req = [r \in Slots |-> Fresh]

LatestNext == \E r \in Slots : GetStart(r) \/ GetThrows(r) \/ GetQuery(r)

SpecLatest == LatestInit /\ [][LatestNext]_vars

(***************************************************************************)
(* Steps 4 to 6 of startOpenAIVisionAnalysis on their own, for the         *)
(* validated replies callVision can return, with a GET of the latest       *)
(* analysis alongside                                                      *)
(***************************************************************************)
TraitIds ==
    {"acne", "dryness", "oiliness", "sensitivity", "hyperpigmentation", "fine-lines",
     "redness", "large-pores"}

TraitsSeen == {Trait(id, id, sev, "seen on the cheeks") : id \in TraitIds, sev \in Severities}

\* the replies that pass the schema, with up to MaxTraits traits
VisionResults ==
    {ParsedData(p) :
        p \in {q \in {[GoodPayload EXCEPT !.traits = ts] :
                        ts \in UNION {[1..n -> TraitsSeen] : n \in 1..MaxTraits}} :
                 VisionAnalysisSchema(q)}}

\* u1's request after callVision has returned: the record is in 'detecting'
SummaryInit ==
    /\ now = 0
    /\ buckets = [o \in Owners |->
                    IF o = "u1" THEN [tokens |-> maxTokens - 1, lastRefill |-> 0] ELSE NoBucket]
    /\ log = <<>>
    /\ records = UpdateStatus(<<NewRow("u1", 0)>>, 1, "detecting")
    /\ images = BaseImages
    /\ \E v \in VisionResults :
         LET found == getUserImagesForAngles(BaseImages, "u1", requiredAngles, 0)
         IN  req = [r \in Slots |->
                      IF r = 1
                      THEN [Fresh EXCEPT !.pc = "generating", !.op = "POST", !.user = "u1",
                                         !.gate = "allowed", !.consumed = 1,
                                         !.analysisId = 1, !.rows = found.rows,
                                         !.urls = [k \in 1..Len(found.rows) |->
                                            SignedUrl(extractStoragePath(
                                                found.rows[k].storage_url,
                                                USER_PHOTOS).path, SignedUrlExpiry)],
                                         !.calls = [lookups |-> 3, mints |-> 3, model |-> 1],
                                         !.visionResult = <<v>>]
                      ELSE Fresh]

SummaryNext ==
    \E r \in Slots :
      \/ UpdateGenerating(r) \/ SaveResults(r) \/ ErrorWrite(r)
      \/ GetStart(r) \/ GetThrows(r) \/ GetQuery(r)

SpecSummary == SummaryInit /\ [][SummaryNext]_vars

(***************************************************************************)
(* mapVisionToSummary called directly, as service.spec.ts calls it: the   *)
(* argument need not have passed VisionAnalysisSchema                      *)
(***************************************************************************)
TestTrait == Trait("test", "Test", "low", "Test")

\* skinType values of the calls: the five categories, and strings outside
SkinTypeArgs == SkinTypes \cup {"Unknown", "", "constructor"}

\* confidence values of the calls
ConfidenceArgs == {-1, 0, 50, 87, 100, 101}

MapArgs ==
    {[ParsedData(GoodPayload) EXCEPT !.skinType = st, !.confidence = c, !.traits = ts] :
        st \in SkinTypeArgs, c \in ConfidenceArgs, ts \in {<<AcneHigh>>, <<TestTrait>>}}

MapInit ==
    /\ now = 0
    /\ buckets = [o \in Owners |-> NoBucket]
    /\ log = <<>>
    /\ records = <<>>
    /\ images = BaseImages
    /\ \E v \in MapArgs :
         req = [r \in Slots |->
                  IF r = 1
                  THEN [Fresh EXCEPT !.pc = "mapping", !.user = "u1", !.visionResult = <<v>>]
                  ELSE Fresh]

\* summary = mapVisionToSummary(userId, visionResult, completedAt); the slot
\* keeps the argument and the returned summary
MapCall(r) ==
    /\ req[r].pc = "mapping"
    /\ req' = [req EXCEPT ![r].pc = "returned",
                          ![r].completedAt = now,
                          ![r].response =
                              <<mapVisionToSummary(req[r].user, req[r].visionResult[1], now)>>]
    /\ UNCHANGED <<now, buckets, log, records, images>>

MapNext == \E r \in Slots : MapCall(r)

SpecMap == MapInit /\ [][MapNext]_vars

(***************************************************************************)
(* Properties                                                              *)
(***************************************************************************)
Retryable == {"api429", "api503"}
NonTerminal == {"uploading", "screening", "detecting", "generating"}
Forward ==
    {<<"uploading", "screening">>, <<"screening", "detecting">>,
     <<"detecting", "generating">>, <<"generating", "complete">>}

\* positions of owner o's requests in log
Mine(o) == {i \in 1..Len(log) : log[i].owner = o}

\* o's requests made less than one documented window after o's first one
FirstWindow(o) ==
    LET first == CHOOSE i \in Mine(o) : \A j \in Mine(o) : i <= j
    IN  {i \in Mine(o) : log[i].at - log[first].at < WindowMs}

\* C1: within the hour that starts with an owner's first request at most 3 of
\* the owner's requests are allowed, and every further request in that hour
\* is denied with retryAfterSeconds > 0.
C1_WindowLimit ==
    \A o \in Owners :
      Mine(o) # {} =>
        \A i \in FirstWindow(o) :
          Cardinality({j \in FirstWindow(o) : j < i /\ log[j].allowed}) >= maxTokens
            => ~log[i].allowed /\ log[i].retryAfter > 0

\* C2: a call of callVision sends at most 3 requests; with a URL count other
\* than 3 it sends none, and an attempt answered with malformed JSON or with
\* a reply that fails the schema is the last attempt of the call.
C2_AttemptBound ==
    \A r \in Slots :
      LET q == req[r]
      IN  /\ q.calls.model <= 3
          /\ Len(q.urls) # 3 => q.calls.model = 0
          /\ q.lastOutcome \in {"badjson", "schema"}
               => q.pc = "afterVision" /\ q.err # <<>> /\ q.calls.model = q.attempt + 1

C2_Witness ==
    \E r \in Slots :
      /\ req[r].pc = "afterVision"
      /\ req[r].lastOutcome \in {"badjson", "schema"}
      /\ req[r].calls.model = 2

\* C3: callVision waits for a further attempt only after a 429 or 5xx answer
\* of the provider, and a call whose third attempt is answered that way ends
\* with the non-retryable VisionAnalysisError "failed after 3 attempts".
C3_RetryOnlyTransient ==
    \A r \in Slots :
      LET q == req[r]
      IN  /\ q.pc = "backoff" => q.lastOutcome \in Retryable /\ q.calls.model < 3
          /\ (q.pc = "afterVision" /\ q.calls.model = 3 /\ q.lastOutcome \in Retryable)
               => /\ q.err # <<>>
                  /\ q.err[1].class = "VisionAnalysisError"
                  /\ ~q.err[1].retryable
                  /\ q.err[1].message = <<"OpenAI Vision API failed after ", "3", " attempts">>

C3_Witness ==
    \E r \in Slots :
      /\ req[r].pc = "afterVision"
      /\ req[r].calls.model = 3
      /\ req[r].lastOutcome \in Retryable

\* C4: a request stopped because the reply of the model does not match the
\* output contract never has its record complete, and when it has answered
\* the record is in error.
C4_SchemaRejection ==
    \A r \in Slots :
      LET q == req[r]
      IN  ( /\ q.err # <<>> /\ q.analysisId # 0
            /\ q.err[1].message = <<"OpenAI response does not match expected schema">> )
            => /\ records[q.analysisId].status # "complete"
               /\ q.pc = "done" => records[q.analysisId].status = "error"

\* C5: a record is created in uploading, its status changes only to the next
\* of uploading, screening, detecting, generating, complete or, from a
\* non-terminal status, to error; and a request answered 200 leaves its
\* record complete.
C5_StatusOrder ==
    [][ /\ \A i \in DOMAIN records' :
             IF i \in DOMAIN records
             THEN \/ records'[i].status = records[i].status
                  \/ <<records[i].status, records'[i].status>> \in Forward
                  \/ records[i].status \in NonTerminal /\ records'[i].status = "error"
             ELSE records'[i].status = "uploading"
        /\ \A r \in Slots :
             (req'[r].pc = "done" /\ req'[r].op = "POST" /\ req'[r].response[1].status = 200)
               => /\ req'[r].analysisId \in DOMAIN records'
                  /\ records'[req'[r].analysisId].status = "complete" ]_vars

\* C6: every record in status complete or error has a completed_at.
C6_TerminalTimestamp ==
    \A i \in DOMAIN records :
      records[i].status \in {"complete", "error"} => records[i].completed_at # NullTime

\* C7: a request that created a record and answered with an error leaves the
\* record in status error, with the message of the error that stopped it as
\* error_message.
C7_ErrorPersisted ==
    \A r \in Slots :
      LET q == req[r]
      IN  (q.pc = "done" /\ q.analysisId # 0 /\ q.response[1].status # 200)
            => /\ q.err # <<>>
               /\ records[q.analysisId].status = "error"
               /\ records[q.analysisId].error_message = q.err[1].message

\* C8: a request the limiter denies has answered 429 rate_limit_exceeded with
\* a retry-after of zero or more seconds, has created no record and has made
\* no image query, no signed URL and no model call; every record belongs to a
\* request that was allowed, and no other answer carries that code or a
\* retry-after.
C8_DeniedStartsNothing ==
    /\ \A r \in Slots :
         LET q == req[r]
         IN  /\ q.gate = "denied"
                  => /\ q.pc = "done"
                     /\ q.analysisId = 0
                     /\ q.calls = NoCalls
                     /\ q.response[1].status = 429
                     /\ q.response[1].code = "rate_limit_exceeded"
                     /\ q.response[1].retryAfter >= 0
             /\ (q.pc = "done" /\ q.gate # "denied")
                  => /\ q.response[1].status # 429
                     /\ q.response[1].code # "rate_limit_exceeded"
                     /\ q.response[1].retryAfter = NoRetryAfter
    /\ Len(records) = Cardinality({r \in Slots : req[r].analysisId # 0 /\ req[r].gate = "allowed"})

C8_Witness ==
    \E r \in Slots : req[r].gate = "denied" /\ req[r].pc = "done"

\* the owner has no image, deleted ones aside, for some required angle
LacksAnAngle(o) ==
    \E k \in 1..Len(requiredAngles) :
      {i \in images : i.user_id = o /\ i.angle = requiredAngles[k] /\ i.deleted_at = NullTime} = {}

\* C9: a request of an owner who lacks an image for a required angle, once
\* allowed by the limiter, has taken one token and never calls the model; if
\* its record was created it is answered 400 missing_images.
C9_MissingImages ==
    \A r \in Slots :
      LET q == req[r]
      IN  (q.gate = "allowed" /\ LacksAnAngle(q.user))
            => /\ q.consumed = 1
               /\ q.calls.model = 0
               /\ (q.pc = "done" /\ q.analysisId # 0)
                    => q.response[1].status = 400 /\ q.response[1].code = "missing_images"

C9_Witness ==
    \E r \in Slots :
      /\ req[r].pc = "done"
      /\ req[r].user = "u2"
      /\ req[r].response[1].code = "missing_images"
      /\ req[r].err[1].message = <<"Missing required image for angle: ", "left_45">>

\* C10: a request without a caller identity is answered 401 unauthorized in
\* the step that finds this out; that step changes neither the bucket map nor
\* the records, and the request creates no record and makes no call.
C10_UnauthorizedFrame ==
    [][ \A r \in Slots :
          req'[r].user = NoUser
            => /\ req'[r].pc = "done"
               /\ req'[r].response[1].status = 401
               /\ req'[r].response[1].code = "unauthorized"
               /\ req'[r].analysisId = 0
               /\ req'[r].calls = NoCalls
               /\ req[r].pc = "idle" => (buckets' = buckets /\ records' = records) ]_vars

C10_Witness ==
    \E r \in Slots :
      req[r].user = NoUser /\ req[r].pc = "done" /\ req[r].response[1].status = 401

C12_SignedUrlFault ==
    \A r \in Slots :
      LET q == req[r]
      IN  ( /\ q.pc = "done" /\ q.err # <<>>
            /\ q.err[1].class = "ImageRetrievalError"
            /\ q.err[1].code \in {"signed_url_failed", "invalid_storage_url"} )
            => /\ q.response[1].status = 500
               /\ q.response[1].code # "missing_images"
               /\ q.response[1].userMessage # MsgMissingImages

\* C13: when the query of GET /api/analysis/latest succeeds, the answer is
\* 200: null if the owner has no row in status complete, otherwise the
\* projection of a row of that owner in status complete whose completed_at
\* no other complete row of the owner exceeds; the only other answer of an
\* authenticated GET is db_error.
C13_LatestCompleted ==
    [][ \A r \in Slots :
          (req[r].pc = "query" /\ req'[r].pc = "done")
            => LET o == req[r].user
                   a == req'[r].response[1]
                   done == {i \in DOMAIN records :
                               records[i].user_id = o /\ records[i].status = "complete"}
               IN  IF a.status # 200
                   THEN a.code = "db_error"
                   ELSE IF a.summary = <<>>
                   THEN done = {}
                   ELSE \E i \in done :
                          /\ \A j \in done : records[j].completed_at <= records[i].completed_at
                          /\ a.summary[1].user_id = o
                          /\ a.summary[1].updatedAt = records[i].completed_at
                          /\ a.summary[1].detected_traits = records[i].detected_traits ]_vars

\* the owner's first row was completed after the second one, and GET has
\* answered with the first
C13_Witness ==
    \E r \in Slots :
      /\ req[r].pc = "done" /\ req[r].op = "GET" /\ req[r].user = "u1"
      /\ Len(records) = 2
      /\ records[1].user_id = "u1" /\ records[1].status = "complete"
      /\ records[2].user_id = "u1" /\ records[2].status = "complete"
      /\ records[1].completed_at > records[2].completed_at
      /\ req[r].response[1].summary # <<>>
      /\ req[r].response[1].summary[1].updatedAt = records[1].completed_at

\* C14: the rows a request holds are, in the order of the required angles,
\* rows of the owner for these angles that are not deleted and that no
\* other such row is newer than; a query that settles either adds the row
\* for its angle or ends the lookup with an ImageRetrievalError and no row
\* kept, and it ends it whenever the owner has no image for the angle; a
\* signed URL is asked for only with the rows of all three angles.
C14_ImageLocator ==
    [][ \A r \in Slots :
          LET q == req[r]
              p == req'[r]
              o == q.user
              Live(a) == {i \in images : i.user_id = o /\ i.angle = a /\ i.deleted_at = NullTime}
          IN  /\ \A k \in DOMAIN p.rows :
                   /\ p.rows[k] \in Live(requiredAngles[k])
                   /\ \A i \in Live(requiredAngles[k]) : i.created_at <= p.rows[k].created_at
              /\ p.pc = "mint" => Len(p.rows) = 3 /\ ~LacksAnAngle(o)
              /\ (q.pc = "lookup" /\ p # q)
                   => LET k == Len(q.rows) + 1
                      IN  \/ /\ Len(p.rows) = k
                             /\ SubSeq(p.rows, 1, k - 1) = q.rows
                             /\ p.pc = IF k < 3 THEN "lookup" ELSE "mint"
                          \/ /\ p.pc = "errwrite" /\ p.rows = <<>>
                             /\ p.err[1].class = "ImageRetrievalError"
                             /\ \/ p.err[1].message = <<"Missing required image for angle: ",
                                                        requiredAngles[k]>>
                                \/ k = 3 /\ p.err[1].code = "invalid_storage_url"
                                         /\ Live(requiredAngles[k]) # {}
              /\ (q.pc = "lookup" /\ p # q /\ Live(requiredAngles[Len(q.rows) + 1]) = {})
                   => p.pc = "errwrite" /\ p.err[1].code = "missing_image" ]_vars

\* u1's lookup has passed over the older front image and the deleted, newer
\* left_45 image
C14_Witness ==
    \E r \in Slots :
      /\ req[r].pc = "mint" /\ req[r].user = "u1"
      /\ req[r].rows[1].id = 2 /\ req[r].rows[2].id = 3 /\ req[r].rows[3].id = 5

\* C15: a check of an existing bucket made one hour or more after its
\* lastRefill is allowed and leaves the bucket with capacity - 1 tokens and
\* lastRefill at the time of the check.
C15_RefillAfterWindow ==
    [][ \A o \in Owners :
          ( /\ Len(log') = Len(log) + 1
            /\ log'[Len(log')].owner = o
            /\ buckets[o] # NoBucket
            /\ now - buckets[o].lastRefill >= WindowMs )
            => /\ log'[Len(log')].allowed
               /\ buckets'[o] = [tokens |-> maxTokens - 1, lastRefill |-> now] ]_vars

\* an owner was denied and, an hour or more later, allowed again
C15_Witness ==
    \E i, j \in 1..Len(log) :
      /\ i < j /\ j = Len(log)
      /\ log[i].owner = log[j].owner
      /\ ~log[i].allowed /\ log[j].allowed
      /\ log[j].at - log[i].at >= WindowMs
      /\ buckets[log[j].owner] = [tokens |-> maxTokens - 1, lastRefill |-> log[j].at]

\* C16: a request asks for a signed URL only with three image rows found by
\* three queries, sends a request to the model only with three URLs made,
\* and its record becomes complete only from a reply the request holds as
\* validated, after at least one request to the model.
C16_StepOrder ==
    [][ /\ \A r \in Slots :
             /\ req'[r].calls.mints > req[r].calls.mints
                  => Len(req'[r].rows) = 3 /\ req[r].calls.lookups = 3
             /\ req'[r].calls.model > req[r].calls.model
                  => Len(req[r].urls) = 3 /\ req[r].calls.mints = 3
        /\ \A i \in DOMAIN records :
             (records'[i].status = "complete" /\ records[i].status # "complete")
               => \E r \in Slots :
                    /\ req[r].analysisId = i
                    /\ req[r].calls.model >= 1
                    /\ req[r].visionResult # <<>>
                    /\ req[r].err = <<>>
                    /\ records'[i].detected_traits = req[r].visionResult[1].traits ]_vars

\* a request has gone through all the steps: three queries, three URLs, the
\* model called and the record complete
C16_Witness ==
    \E r \in Slots :
      /\ req[r].pc = "done" /\ req[r].op = "POST"
      /\ req[r].calls.lookups = 3 /\ req[r].calls.mints = 3 /\ req[r].calls.model >= 1
      /\ req[r].analysisId # 0
      /\ records[req[r].analysisId].status = "complete"
      /\ records[req[r].analysisId].image_ids = <<2, 3, 5>>

\* an upper bound on the steps a request has left before it answers
StepsLeft(q) ==
    CASE q.pc = "idle" -> 27
      [] q.pc = "client" -> 26
      [] q.pc = "insert" -> 25
      [] q.pc = "screening" -> 24
      [] q.pc = "lookup" -> 24 - q.calls.lookups
      [] q.pc = "mint" -> 20 - q.calls.mints
      [] q.pc = "detecting" -> 16
      [] q.pc = "callVision" -> 15
      [] q.pc = "vision" -> 8 + 2 * (maxAttempts - q.attempt)
      [] q.pc = "backoff" -> 9 + 2 * (maxAttempts - q.attempt)
      [] q.pc = "afterVision" -> 7
      [] q.pc = "generating" -> 6
      [] q.pc = "save" -> 5
      [] q.pc = "errwrite" -> 4
      [] q.pc = "query" -> 2
      [] OTHER -> 0

\* C17: every record that is created is eventually in status complete or
\* error.  In finite-run form: every record is the record of a request; a
\* request that has started and not answered can take a step; each step of
\* a request lowers the number of steps it has left; and when a request has
\* answered, its record is in status complete or error.  With the fairness
\* of SpecLive (every awaited call settles) each started request answers.
C17_ReachesTerminal ==
    [][ /\ \A i \in DOMAIN records' :
             \E r \in Slots : req'[r].analysisId = i /\ req'[r].op = "POST"
        /\ \A r \in Slots :
             /\ req[r].pc \notin {"idle", "done"} => ENABLED Run(r)
             /\ req'[r] # req[r] => StepsLeft(req'[r]) < StepsLeft(req[r])
             /\ (req'[r].pc = "done" /\ req'[r].analysisId # 0)
                  => records'[req'[r].analysisId].status \in {"complete", "error"} ]_vars

\* C18: whatever the other requests are doing, a step changes the bucket map
\* only by passing one request through the gate, for that request's owner
\* alone: an allowed request finds at least one token and leaves exactly one
\* fewer than it found, a denied request finds none and leaves none.
C18_AtomicConsume ==
    [][ LET gated == {r \in Slots : req[r].gate = "" /\ req'[r].gate # ""}
        IN  /\ Cardinality(gated) <= 1
            /\ gated = {} => buckets' = buckets
            /\ \A r \in gated :
                 LET o == req'[r].user
                     found == Available(buckets, o, now)
                 IN  /\ \A o2 \in Owners \ {o} : buckets'[o2] = buckets[o2]
                     /\ buckets'[o].tokens >= 0
                     /\ IF req'[r].gate = "allowed"
                        THEN found >= 1 /\ buckets'[o].tokens = found - 1
                        ELSE found = 0 /\ buckets'[o].tokens = 0 ]_vars

\* two requests of one owner are in flight together, both allowed, and the
\* bucket holds two tokens fewer than its capacity
C18_Witness ==
    \E r1, r2 \in Slots :
      /\ r1 # r2 /\ req[r1].user = req[r2].user
      /\ req[r1].gate = "allowed" /\ req[r2].gate = "allowed"
      /\ req[r1].pc \notin {"idle", "done"} /\ req[r2].pc \notin {"idle", "done"}
      /\ buckets[req[r1].user].tokens = maxTokens - 2

\* C19: requests that have created a record have created different records,
\* and a step changes an existing record only if it is the record of the one
\* request that takes the step.
C19_OwnRecordOnly ==
    [][ /\ \A r1, r2 \in Slots :
             (r1 # r2 /\ req'[r1].op = "POST" /\ req'[r2].op = "POST"
              /\ req'[r1].analysisId # 0 /\ req'[r2].analysisId # 0)
               => req'[r1].analysisId # req'[r2].analysisId
        /\ \A i \in DOMAIN records :
             records'[i] # records[i]
               => \E r \in Slots :
                    /\ req[r].analysisId = i
                    /\ req'[r] # req[r]
                    /\ \A r2 \in Slots \ {r} : req'[r2] = req[r2] ]_vars

\* two requests of u1 ran together: both created a record, one has completed
\* its record while the other's record is in error
C19_Witness ==
    \E r1, r2 \in Slots :
      /\ req[r1].user = "u1" /\ req[r2].user = "u1"
      /\ req[r1].analysisId # 0 /\ req[r2].analysisId # 0
      /\ req[r1].analysisId # req[r2].analysisId
      /\ records[req[r1].analysisId].status = "complete"
      /\ records[req[r2].analysisId].status = "error"
      /\ records[req[r1].analysisId].created_at = records[req[r2].analysisId].created_at

\* the score the claim gives a channel: 0 without a trait of that id, else
\* 25, 55 or 85 for the severity of the (first) trait of that id
ChannelScore(traits, id) ==
    IF \A k \in 1..Len(traits) : traits[k].id # id
    THEN 0
    ELSE LET k == CHOOSE n \in 1..Len(traits) :
                    traits[n].id = id /\ \A m \in 1..(n - 1) : traits[m].id # id
         IN  IF traits[k].severity = "low" THEN 25
             ELSE IF traits[k].severity = "moderate" THEN 55
             ELSE 85

\* C20: in the summary of a successful request the channels acne, dryness
\* and pigmentation are the scores of the saved traits with id acne, dryness
\* and hyperpigmentation: 25, 55 or 85 by severity, 0 without such a trait.
C20_ChannelScores ==
    \A r \in Slots :
      (req[r].pc = "done" /\ req[r].op = "POST" /\ req[r].response[1].status = 200)
        => LET traits == records[req[r].analysisId].detected_traits
               point == req[r].response[1].summary[1].series[1]
           IN  /\ point.acne = ChannelScore(traits, "acne")
               /\ point.dryness = ChannelScore(traits, "dryness")
               /\ point.pigmentation = ChannelScore(traits, "hyperpigmentation")
               /\ {point.acne, point.dryness, point.pigmentation} \subseteq {0, 25, 55, 85}

\* a summary with acne low, hyperpigmentation moderate and no dryness trait
C20_Witness ==
    \E r \in Slots :
      /\ req[r].pc = "done" /\ req[r].op = "POST" /\ req[r].response[1].status = 200
      /\ req[r].response[1].summary[1].series[1].acne = 25
      /\ req[r].response[1].summary[1].series[1].pigmentation = 55
      /\ req[r].response[1].summary[1].series[1].dryness = 0

\* C21: mapVisionToSummary maps skinType Dry, Oily, Combination, Normal and
\* Sensitive to dry, oily, combination, normal and sensitive, and every
\* value outside these five to normal.
C21_SkinTypeLookup ==
    \A r \in Slots :
      req[r].pc = "returned"
        => LET given == req[r].visionResult[1].skinType
               got == req[r].response[1].skin_type
           IN  /\ given = "Dry" => got = "dry"
               /\ given = "Oily" => got = "oily"
               /\ given = "Combination" => got = "combination"
               /\ given = "Normal" => got = "normal"
               /\ given = "Sensitive" => got = "sensitive"
               /\ given \notin SkinTypes => got = "normal"

\* C22: for every confidence c in [0,100] the summary's confidence is c/100,
\* 0 for c = 0 and 1 for c = 100, and lies in [0,1].
C22_ConfidenceRescaled ==
    \A r \in Slots :
      (/\ req[r].pc = "returned"
       /\ req[r].visionResult[1].confidence >= 0
       /\ req[r].visionResult[1].confidence <= 100)
        => LET c == req[r].visionResult[1].confidence
               got == req[r].response[1].confidence
           IN  /\ got.den > 0
               /\ got.num * 100 = c * got.den
               /\ 0 <= got.num /\ got.num <= got.den
               /\ c = 0 => got.num = 0
               /\ c = 100 => got.num = got.den

\* confidence 87 was rescaled
C22_Witness ==
    \E r \in Slots :
      /\ req[r].pc = "returned"
      /\ req[r].visionResult[1].confidence = 87
      /\ req[r].response[1].confidence.num * 100 = 87 * req[r].response[1].confidence.den

\* time of owner o's last request
LastRequestAt(o) == log[CHOOSE i \in Mine(o) : \A j \in Mine(o) : j <= i].at

\* C23: after a cleanup run no bucket is left whose owner made no request
\* for more than twice the window length.
C23_IdleEvicted ==
    (log # <<>> /\ log[Len(log)].owner = "cleanup")
      => \A o \in Owners :
           (Mine(o) # {} /\ log[Len(log)].at - LastRequestAt(o) > 2 * WindowMs)
             => buckets[o] = NoBucket

\* the answers of the checks in calls, made at their times on an empty map
\* that no cleanup touches
RECURSIVE Replay(_, _)
Replay(calls, bs) ==
    IF calls = <<>> THEN <<>>
    ELSE LET res == checkLimit(bs, calls[1].owner, calls[1].at)
         IN  <<res.allowed>> \o Replay(Tail(calls), res.buckets)

Checks == SelectSeq(log, LAMBDA e : e.owner \in Owners)

\* C24: with cleanup runs between the checks, every check is answered as in
\* the same timed sequence of checks without cleanup.
C24_EvictionInvisible ==
    LET plain == Replay(Checks, [o \in Owners |-> NoBucket])
    IN  \A i \in 1..Len(Checks) : Checks[i].allowed = plain[i]

\* an owner used up the bucket, a cleanup ran twice the window later, and
\* the owner's next check was answered from the bucket that was still there
C24_Witness ==
    \E i, j, k \in 1..Len(log) :
      /\ i < j /\ j < k /\ k = Len(log)
      /\ log[i].owner \in Owners /\ log[k].owner = log[i].owner
      /\ Cardinality({h \in Mine(log[i].owner) : h <= i /\ log[h].allowed}) = maxTokens
      /\ log[j].owner = "cleanup" /\ log[j].at - log[i].at >= 2 * WindowMs
      /\ log[k].allowed
      /\ buckets[log[k].owner] = [tokens |-> maxTokens - 1, lastRefill |-> log[k].at]

\* C25: POST answers each outcome in one category: 401 unauthorized exactly
\* without a caller identity, 429 rate_limit_exceeded exactly on a denial of
\* the limiter, 400 missing_images only for an owner who lacks an image of a
\* required angle, and 500 for every other failure.
C25_OutcomeCategories ==
    \A r \in Slots :
      LET q == req[r]
      IN  (q.pc = "done" /\ q.op = "POST")
            => LET a == q.response[1]
               IN  /\ a.status \in {200, 400, 401, 429, 500}
                   /\ (a.status = 401) = (q.user = NoUser)
                   /\ a.status = 401 => a.code = "unauthorized"
                   /\ (a.status = 429) = (q.gate = "denied")
                   /\ a.status = 429 => a.code = "rate_limit_exceeded"
                   /\ (a.status = 400) = (a.code = "missing_images")
                   /\ a.status = 400 => LacksAnAngle(q.user)
                   /\ (a.status \notin {200, 401, 429} /\ ~LacksAnAngle(q.user))
                        => a.status = 500

\* C26: every bucket of the rate limiter holds at least 0 and at most
\* capacity tokens.
C26_TokenRange ==
    \A o \in Owners :
      buckets[o] # NoBucket => (0 <= buckets[o].tokens /\ buckets[o].tokens <= maxTokens)

\* an owner was denied on an empty bucket, and a later check refilled it
C26_Witness ==
    \E i, j \in 1..Len(log) :
      /\ i < j /\ j = Len(log)
      /\ log[i].owner = log[j].owner
      /\ ~log[i].allowed /\ log[j].allowed /\ log[j].at > log[i].at
      /\ buckets[log[j].owner].tokens = maxTokens - 1

\* C27: a record that is not complete has no traits, no confidence score
\* and no image ids; a complete record has exactly 3 image ids and at least
\* one trait; only a record in status error has an error message.
C27_RecordShape ==
    \A i \in DOMAIN records :
      LET row == records[i]
      IN  /\ row.status # "complete"
               => /\ row.detected_traits = <<>>
                  /\ row.confidence_score = NullScore
                  /\ row.image_ids = <<>>
          /\ row.status = "complete"
               => /\ Len(row.image_ids) = 3
                  /\ Cardinality({row.image_ids[k] : k \in 1..Len(row.image_ids)}) = 3
                  /\ Len(row.detected_traits) >= 1
          /\ row.error_message # <<>> => row.status = "error"

\* one record complete with its results, another in error with its message
C27_Witness ==
    \E i, j \in DOMAIN records :
      /\ records[i].status = "complete" /\ records[i].confidence_score = 100
      /\ records[i].image_ids = <<2, 3, 5>>
      /\ records[j].status = "error" /\ records[j].error_message # <<>>

\* C28: a request is answered with a summary only if its record holds the
\* saved traits, confidence, three image ids and completed_at in status
\* complete; a request whose result write failed is answered with an error
\* and its record is not complete.
C28_SummaryOnlyAfterSave ==
    \A r \in Slots :
      LET q == req[r]
      IN  /\ (q.pc = "done" /\ q.op = "POST" /\ q.response[1].status = 200)
               => LET row == records[q.analysisId]
                      summary == q.response[1].summary[1]
                  IN  /\ row.status = "complete"
                      /\ row.detected_traits # <<>>
                      /\ row.confidence_score * summary.confidence.den
                           = summary.confidence.num * 100
                      /\ Len(row.image_ids) = 3
                      /\ row.completed_at # NullTime
                      /\ row.completed_at = summary.updatedAt
          /\ (q.err # <<>> /\ q.err[1].code = "db_update_failed")
               => /\ records[q.analysisId].status # "complete"
                  /\ q.pc = "done" => q.response[1].status = 500

\* the result write of a request failed and the request was answered
C28_Witness ==
    \E r \in Slots :
      /\ req[r].pc = "done" /\ req[r].err # <<>>
      /\ req[r].err[1].code = "db_update_failed"
      /\ req[r].response[1].code = "db_update_failed"
      /\ records[req[r].analysisId].status = "error"

\* C29: once a record is in status complete or error, no step changes its
\* status.
C29_TerminalAbsorbing ==
    [][ \A i \in DOMAIN records :
          records[i].status \in {"complete", "error"}
            => records'[i].status = records[i].status ]_vars

\* a record completed, time passed, and a later request of the same owner is
\* at work on a record of its own
C29_Witness ==
    /\ Len(records) = 2 /\ now = TickMs
    /\ records[1].status = "complete" /\ records[1].completed_at = 0
    /\ records[2].user_id = records[1].user_id
    /\ records[2].status = "generating"

\* C30: a step that changes a record's completed_at sets it for the first
\* time, to the completedAt of its request, together with status complete;
\* once set it never changes, and the error write after a failed result
\* write leaves it unset.
C30_CompletedAtOnce ==
    [][ \A i \in DOMAIN records :
          /\ records[i].completed_at # NullTime
               => records'[i].completed_at = records[i].completed_at
          /\ records'[i].completed_at # records[i].completed_at
               => /\ records[i].completed_at = NullTime
                  /\ \E r \in Slots :
                       /\ req[r].pc = "save" /\ req[r].analysisId = i
                       /\ records'[i].completed_at = req[r].completedAt
                  /\ records'[i].status = "complete"
          /\ \A r \in Slots :
               ( /\ req[r].pc = "errwrite" /\ req'[r].pc = "done"
                 /\ req[r].analysisId = i /\ req[r].err[1].code = "db_update_failed" )
                 => records'[i].completed_at = NullTime ]_vars

\* one record completed at time 0 and is still so after a later request of
\* the owner, whose result write failed, has written its error
C30_Witness ==
    /\ Len(records) = 2 /\ now = TickMs
    /\ records[1].completed_at = 0
    /\ records[2].user_id = records[1].user_id
    /\ \E r \in Slots :
         /\ req[r].pc = "done" /\ req[r].analysisId = 2 /\ req[r].err # <<>>
         /\ req[r].err[1].code = "db_update_failed"
         /\ records[2].status = "error" /\ records[2].completed_at = NullTime

\* C31: a denied check leaves the bucket map as it was, with the owner's
\* bucket at 0 tokens: this holds for the check a request makes, and for a
\* check of any owner at the present time by a limiter of the configured
\* interval or of the documented window.
C31_DeniedLeavesBucket ==
    /\ \A o \in Owners, intervalMs \in {refillIntervalMs, WindowMs} :
         LET res == checkLimitAt(buckets, o, now, intervalMs)
         IN  ~res.allowed => (res.buckets = buckets /\ buckets[o].tokens = 0)
    /\ (log # <<>> /\ log[Len(log)].owner \in Owners /\ ~log[Len(log)].allowed)
         => LET o == log[Len(log)].owner
                earlier == {i \in Mine(o) : i < Len(log)}
                prev == CHOOSE i \in earlier : \A j \in earlier : j <= i
            IN  /\ buckets[o].tokens = 0
                /\ buckets[o].lastRefill <= log[prev].at

\* an owner was denied twice in a row, and the bucket still carries the time
\* of the owner's first request
C31_Witness ==
    \E i, j \in 1..Len(log) :
      /\ i < j /\ j = Len(log)
      /\ log[i].owner = log[j].owner
      /\ ~log[i].allowed /\ ~log[j].allowed
      /\ buckets[log[j].owner] = [tokens |-> 0, lastRefill |-> 0]

\* the bucket map after the checks in calls, made at their times
RECURSIVE ReplayMap(_, _)
ReplayMap(calls, bs) ==
    IF calls = <<>> THEN bs
    ELSE ReplayMap(Tail(calls), checkLimit(bs, calls[1].owner, calls[1].at).buckets)

\* C32: the answers an owner's checks were given, and the owner's bucket,
\* are those of the owner's checks made alone at the same times, whatever
\* checks the other owner made in between.
C32_OwnersIndependent ==
    \A o \in Owners :
      LET own == SelectSeq(log, LAMBDA e : e.owner = o)
          empty == [k \in Owners |-> NoBucket]
          alone == Replay(own, empty)
      IN  /\ \A i \in 1..Len(own) : own[i].allowed = alone[i]
          /\ buckets[o] = ReplayMap(own, empty)[o]

\* u1 used up its bucket and was denied, with checks of u2 in between that
\* were allowed
C32_Witness ==
    \E i, j, k \in 1..Len(log) :
      /\ i < j /\ j < k
      /\ log[i].owner = "u1" /\ log[i].allowed
      /\ log[j].owner = "u2" /\ log[j].allowed
      /\ log[k].owner = "u1" /\ ~log[k].allowed
      /\ buckets["u2"].tokens = maxTokens - 1

\* C33: a call of callVision that ends on an empty response of the model has
\* used all its attempts: while attempts remain, an empty response is
\* followed by another attempt.
C33_EmptyRetried ==
    \A r \in Slots :
      (req[r].pc = "afterVision" /\ req[r].lastOutcome = "empty")
        => req[r].calls.model = maxAttempts

\* C34: the first attempt of a call is sent without a wait, and retry k
\* (k = 1, 2) is sent after a wait of at least base * 2^(k-1) and at most
\* min(maxDelay, 1.3 * base * 2^(k-1)), base 1000 ms and maxDelay 10000 ms
\* (delays in microseconds).
C34_RetryDelay ==
    [][ \A r \in Slots :
          (req'[r].pc = "vision" /\ req[r].pc # "vision")
            => IF req'[r].attempt = 0
               THEN req[r].pc = "callVision" /\ req[r].delay = 0
               ELSE LET k == req'[r].attempt
                        floor == 1000 * 1000 * Pow2(k - 1)
                    IN  /\ req[r].pc = "backoff"
                        /\ k \in {1, 2}
                        /\ req[r].delay >= floor
                        /\ 10 * req[r].delay <= 13 * floor
                        /\ req[r].delay <= 10000 * 1000 ]_vars

\* the second retry of a call waits with the largest jitter
C34_Witness ==
    \E r \in Slots :
      req[r].pc = "backoff" /\ req[r].attempt = 2 /\ req[r].delay = 2599400

\* C35: when a POST has completed a record and it is the owner's only
\* completed record, the summary a GET of that owner answers with has the
\* skin_type, confidence, primary_concern, series scores and notes of the
\* summary the POST returned.
C35_LatestEqualsStart ==
    \A r1, r2 \in Slots :
      ( /\ req[r1].pc = "done" /\ req[r1].op = "POST" /\ req[r1].response[1].status = 200
        /\ req[r2].pc = "done" /\ req[r2].op = "GET" /\ req[r2].response[1].status = 200
        /\ req[r2].response[1].summary # <<>>
        /\ req[r2].user = req[r1].user
        /\ Completed(records, req[r1].user) = {req[r1].analysisId} )
        => LET started == req[r1].response[1].summary[1]
               latest == req[r2].response[1].summary[1]
           IN  /\ latest.series[1].acne = started.series[1].acne
               /\ latest.series[1].dryness = started.series[1].dryness
               /\ latest.series[1].pigmentation = started.series[1].pigmentation
               /\ latest.confidence = started.confidence
               /\ latest.skin_type = started.skin_type
               /\ latest.primary_concern = started.primary_concern
               /\ latest.notes = started.notes

\* the ids of the stored traits whose severity is moderate or high
AboveLow(traits) ==
    {traits[k].id : k \in {j \in DOMAIN traits : traits[j].severity \in {"moderate", "high"}}}

\* C36: the skin_type of the summary a GET answers with follows from the
\* stored traits of the record by a fixed priority: combination when both
\* oiliness and dryness are above low, else oily, else dry, else sensitive
\* when sensitivity is above low, else normal.
C36_SkinTypePriority ==
    \A r \in Slots :
      ( /\ req[r].pc = "done" /\ req[r].op = "GET" /\ req[r].response[1].status = 200
        /\ req[r].response[1].summary # <<>> )
        => \E i \in LatestCompleted(records, req[r].user) :
             LET above == AboveLow(records[i].detected_traits)
                 skin == req[r].response[1].summary[1].skin_type
             IN  /\ (skin = "combination") <=> {"oiliness", "dryness"} \subseteq above
                 /\ (skin = "oily") <=> ("oiliness" \in above /\ "dryness" \notin above)
                 /\ (skin = "dry") <=> ("dryness" \in above /\ "oiliness" \notin above)
                 /\ (skin = "sensitive") <=>
                        ("sensitivity" \in above /\ above \cap {"oiliness", "dryness"} = {})
                 /\ (skin = "normal") <=>
                        above \cap {"oiliness", "dryness", "sensitivity"} = {}

\* a GET has answered oily for a record whose traits are oiliness and
\* sensitivity, both above low
C36_Witness ==
    \E r \in Slots :
      /\ req[r].pc = "done" /\ req[r].op = "GET" /\ req[r].response[1].status = 200
      /\ req[r].response[1].summary # <<>>
      /\ req[r].response[1].summary[1].skin_type = "oily"
      /\ AboveLow(records[1].detected_traits) = {"oiliness", "sensitivity"}

\* C37: of several traits with the same id the first in the list decides the
\* channel score of the summary POST returns; the later ones have no effect.
C37_FirstTraitDecides ==
    \A r \in Slots :
      (req[r].pc = "done" /\ req[r].op = "POST" /\ req[r].response[1].status = 200)
        => LET traits == records[req[r].analysisId].detected_traits
               point == req[r].response[1].summary[1].series[1]
               Score(id) == CASE id = "acne" -> point.acne
                              [] id = "dryness" -> point.dryness
                              [] id = "hyperpigmentation" -> point.pigmentation
           IN  \A k \in DOMAIN traits :
                 ( /\ traits[k].id \in {"acne", "dryness", "hyperpigmentation"}
                   /\ \A j \in 1..(k - 1) : traits[j].id # traits[k].id )
                   => Score(traits[k].id) =
                        (CASE traits[k].severity = "low" -> 25
                           [] traits[k].severity = "moderate" -> 55
                           [] traits[k].severity = "high" -> 85)

\* a POST has answered for a list of two dryness traits, the first low and
\* the second high, with the dryness score of the first
C37_Witness ==
    \E r \in Slots :
      /\ req[r].pc = "done" /\ req[r].op = "POST" /\ req[r].response[1].status = 200
      /\ LET traits == records[req[r].analysisId].detected_traits
         IN  /\ Len(traits) = 2
             /\ traits[1].id = "dryness" /\ traits[1].severity = "low"
             /\ traits[2].id = "dryness" /\ traits[2].severity = "high"
      /\ req[r].response[1].summary[1].series[1].dryness = 25

(***************************************************************************)
(* The useAnalysis hook: each slot holds one mounted instance of the hook  *)
(* (its four useState cells, the autoStart argument of the last render and *)
(* the runAnalysis calls whose timers have not all fired yet).  A run is   *)
(* written as the number of the await it is suspended at; runs of one      *)
(* instance wait for the same delays, so a later run never passes an       *)
(* earlier one.  Nothing inside the try block can throw, so the catch      *)
(* block is not reached.                                                   *)
(***************************************************************************)
MaxRuns == 2

\* the initial value of progressItems: four items, all pending
PendingItems ==
    <<[label |-> "Uploading images", status |-> "pending"],
      [label |-> "Screening for quality", status |-> "pending"],
      [label |-> "Feature detection", status |-> "pending"],
      [label |-> "Generating report", status |-> "pending"]>>

\* the traits a finished run sets
MockTraits ==
    <<Trait("oily", "Oily", "moderate", "Excess sebum production detected in T-zone"),
      Trait("sensitive", "Sensitive", "moderate",
            "Signs of reactivity and potential inflammation"),
      Trait("acne", "Moderate acne", "moderate", "Active breakouts and comedones present"),
      Trait("pih", "PIH risk", "low", "Post-inflammatory hyperpigmentation potential")>>

NoError == "null"

\* the status each step of runAnalysis sets
StepStatus == <<"uploading", "screening", "detecting", "generating">>

\* prev.map((item, i) => (i === n ? { ...item, status: "done" } : item)),
\* n counted from 1
MarkDone(prev, n) == [prev EXCEPT ![n].status = "done"]

\* the hook after its first render; cleared records that reset() was called
\* and no run has been started since
useAnalysis(autoStart) ==
    [status |-> "idle", traits |-> <<>>, progressItems |-> PendingItems,
     error |-> NoError, autoStart |-> autoStart, effectPending |-> TRUE,
     runs |-> <<>>, cleared |-> FALSE]

HookInit ==
    /\ now = 0
    /\ buckets = [o \in Owners |-> NoBucket]
    /\ log = <<>>
    /\ records = <<>>
    /\ images = BaseImages
    /\ req \in [Slots -> {useAnalysis(a) : a \in BOOLEAN}]

\* the effect after a render in which autoStart is new: it returns at once
\* without autoStart and otherwise calls runAnalysis, which runs up to its
\* first await
Effect(r) ==
    /\ req[r].effectPending
    /\ req' = [req EXCEPT ![r] =
                 IF ~req[r].autoStart
                 THEN [@ EXCEPT !.effectPending = FALSE]
                 ELSE [@ EXCEPT !.effectPending = FALSE,
                                !.status = StepStatus[1],
                                !.progressItems = MarkDone(@, 1),
                                !.runs = Append(@, 1),
                                !.cleared = FALSE]]
    /\ UNCHANGED <<now, buckets, log, records, images>>

\* the component renders the hook with the other value of autoStart
Render(r) ==
    /\ ~req[r].effectPending
    /\ req[r].autoStart \/ Len(req[r].runs) < MaxRuns
    /\ req' = [req EXCEPT ![r].autoStart = ~@, ![r].effectPending = TRUE]
    /\ UNCHANGED <<now, buckets, log, records, images>>

\* the timer run k of the instance awaits fires: runAnalysis goes on to its
\* next await, or to its end after the fourth
runAnalysis(r, k) ==
    /\ k \in DOMAIN req[r].runs
    /\ \A j \in 1..(k - 1) : req[r].runs[j] > req[r].runs[k]
    /\ LET step == req[r].runs[k]
       IN  req' = [req EXCEPT ![r] =
                     IF step < 4
                     THEN [@ EXCEPT !.status = StepStatus[step + 1],
                                    !.progressItems = MarkDone(@, step + 1),
                                    !.runs[k] = step + 1]
                     ELSE [@ EXCEPT !.status = "complete",
                                    !.traits = MockTraits,
                                    !.runs = Tail(@)]]
    /\ UNCHANGED <<now, buckets, log, records, images>>

reset(r) ==
    /\ req' = [req EXCEPT ![r].status = "idle",
                          ![r].traits = <<>>,
                          ![r].progressItems = PendingItems,
                          ![r].error = NoError,
                          ![r].cleared = TRUE]
    /\ UNCHANGED <<now, buckets, log, records, images>>

HookNext ==
    \E r \in Slots :
      \/ Effect(r)
      \/ Render(r)
      \/ \E k \in 1..MaxRuns : runAnalysis(r, k)
      \/ reset(r)

SpecHook == HookInit /\ [][HookNext]_vars

\* C38: from a call of reset() until a new run is started the hook keeps
\* status idle, no traits, four pending progress items and no error; a run
\* that was in flight at the call changes nothing of these.
C38_ResetHolds ==
    \A r \in Slots :
      req[r].cleared =>
        /\ req[r].status = "idle"
        /\ req[r].traits = <<>>
        /\ req[r].progressItems = PendingItems
        /\ req[r].error = NoError

====
